---------------------------- MODULE Spec2Model ----------------------------
(***************************************************************************)
(* Verification model of the command / confirmation / macro core of the    *)
(* voice assistant bot (src/app/commands.py, src/app/handlers.py).         *)
(*                                                                         *)
(* Strings of the program that are compared character by character (the    *)
(* operator's text replies) are sequences of one-character tokens; a       *)
(* Cyrillic letter is written cy_<latin name> (lower case) or CY_<NAME>    *)
(* (upper case).                                                           *)
(***************************************************************************)
EXTENDS Integers, Sequences, FiniteSets, TLC

(***************************************************************************)
(* Bounds of the model.                                                    *)
(***************************************************************************)
\* messages (voice, text, photo, slash command) the bot receives in a run
MaxMsgs == 3
\* longest step list of a macro of the hypothetical registries (SpecPure)
MaxSteps == 3

(***************************************************************************)
(* Parameters of an intent descriptor: a JSON object, modelled as a set of *)
(* <<key, value>> pairs with at most one pair per key.                     *)
(***************************************************************************)
NoParams == {}

HasKey(params, key) == \E p \in params : p[1] = key

\* dict.get(key, default)
Get(params, key, default) ==
    IF HasKey(params, key)
    THEN (CHOOSE p \in params : p[1] = key)[2]
    ELSE default

\* Python's max(a, b) on integers
Max(a, b) == IF a >= b THEN a ELSE b

(***************************************************************************)
(* commands.py: DANGEROUS_INTENTS, COMMAND_REGISTRY, MACRO_REGISTRY.       *)
(***************************************************************************)
DANGEROUS_INTENTS == {"shutdown", "restart", "hibernate"}

COMMAND_REGISTRY ==
    [ shutdown         |-> "cmd_shutdown",
      restart          |-> "cmd_restart",
      cancel_shutdown  |-> "cmd_cancel_shutdown",
      sleep            |-> "cmd_sleep",
      lock             |-> "cmd_lock",
      hibernate        |-> "cmd_hibernate",
      open_app         |-> "cmd_open_app",
      close_app        |-> "cmd_close_app",
      volume_up        |-> "cmd_volume_up",
      volume_down      |-> "cmd_volume_down",
      volume_mute      |-> "cmd_volume_mute",
      media_play_pause |-> "cmd_media_play_pause",
      media_next       |-> "cmd_media_next",
      media_prev       |-> "cmd_media_prev",
      screenshot       |-> "cmd_screenshot",
      type_text        |-> "cmd_type_text",
      open_url         |-> "cmd_open_url",
      hotkey           |-> "cmd_hotkey",
      run_macro        |-> "cmd_run_macro",
      list_macros      |-> "cmd_list_macros" ]

Step(intent, params) == [intent |-> intent, params |-> params]

\* faulty variant: end_work shuts the machine down instead of locking it
MACRO_REGISTRY_WITH_SHUTDOWN ==
    [ start_work   |-> << Step("open_app", {<<"name", "telegram">>}) >>,
      end_work     |-> << Step("close_app", {<<"name", "code">>}),
                          Step("shutdown", NoParams) >>,
      music_mode   |-> << Step("volume_up", {<<"percent", 50>>}) >>,
      focus_mode   |-> << Step("volume_mute", NoParams),
                          Step("close_app", {<<"name", "telegram">>}) >>,
      presentation |-> << Step("volume_up", {<<"percent", 70>>}) >> ]

MACRO_REGISTRY ==
    [ start_work   |-> << Step("open_app", {<<"name", "telegram">>}),
                          Step("open_url", {<<"url", "https://mail.google.com">>}),
                          Step("open_app", {<<"name", "code">>}) >>,
      end_work     |-> << Step("close_app", {<<"name", "code">>}),
                          Step("lock", NoParams) >>,
      music_mode   |-> << Step("open_url", {<<"url", "https://music.youtube.com">>}),
                          Step("volume_up", {<<"percent", 50>>}) >>,
      focus_mode   |-> << Step("volume_mute", NoParams),
                          Step("close_app", {<<"name", "telegram">>}) >>,
      presentation |-> << Step("volume_up", {<<"percent", 70>>}),
                          Step("hotkey", {<<"keys", "win+p">>}) >> ]

(***************************************************************************)
(* Outcomes.  Every outcome string of commands.py is a record              *)
(*   kind : "success" | "failure" | "not_found" | "sentinel" | "report"    *)
(*   who  : the handler, intent or macro the string names                  *)
(*   n    : the number the string shows (0 when it shows none)             *)
(*   body : the entries of a macro report (<<>> otherwise)                 *)
(* "failure" (an executor's own failure message), "error" (the            *)
(* dispatcher's message for an executor that raised) and "not_found" are   *)
(* the strings that start with the cross mark; "sentinel" is               *)
(* SCREENSHOT_REQUESTED.                                                   *)
(***************************************************************************)
Outcome(kind, who, n) ==
    [kind |-> kind, who |-> who, n |-> n, body |-> <<>>, keys |-> <<>>]

\* an outcome together with the key presses the executor made (keys)
WithKeys(out, keys) == [out EXCEPT !.keys = keys]

\* for _ in range(n): pyautogui.press(key)
Presses(key, n) == [i \in 1..n |-> key]

\* what one executor invocation meets in the operating system:
\*   "ok"      the OS action works
\*   "nonzero" the spawned process ends with a nonzero return code
\*   "raise"   the OS call raises an exception
OsResults == {"ok", "nonzero", "raise"}

\* an executor's result: the outcome it returns, or the exception it raises
Returned(out) == [raised |-> FALSE, out |-> out]
Raised(who)   == [raised |-> TRUE,  out |-> Outcome("exception", who, 0)]

\* handlers whose body is one unguarded OS call and a fixed success string
\* (cmd_restart .. cmd_hibernate, cmd_volume_mute, cmd_media_*)
SimpleOsHandlers ==
    {"cmd_restart", "cmd_cancel_shutdown", "cmd_sleep", "cmd_lock",
     "cmd_hibernate", "cmd_volume_mute", "cmd_media_play_pause",
     "cmd_media_next", "cmd_media_prev"}

\* handlers that need one string parameter and catch the OS error themselves
\* (cmd_open_app, cmd_type_text, cmd_open_url, cmd_hotkey)
GuardedHandlers ==
    [ cmd_open_app  |-> "name",
      cmd_type_text |-> "text",
      cmd_open_url  |-> "url",
      cmd_hotkey    |-> "keys" ]

cmd_shutdown(params, os) ==
    LET delay == Get(params, "delay_seconds", 60)
    IN  IF os = "raise" THEN Raised("cmd_shutdown")
        ELSE Returned(Outcome("success", "cmd_shutdown", delay))

cmd_close_app(params, os) ==
    IF Get(params, "name", "") = ""
    THEN Returned(Outcome("failure", "cmd_close_app", 0))
    ELSE IF os = "raise" THEN Raised("cmd_close_app")
    ELSE IF os = "ok" THEN Returned(Outcome("success", "cmd_close_app", 0))
    ELSE Returned(Outcome("failure", "cmd_close_app", 0))

\* faulty variant: the step count without max(1, ...)
VolumeStepsUnclamped(params) == Get(params, "percent", 10) \div 2

\* steps = max(1, params.get("percent", 10) // 2)
VolumeSteps(params) == Max(1, Get(params, "percent", 10) \div 2)

cmd_volume_up(params, os) ==
    IF os = "raise" THEN Raised("cmd_volume_up")
    ELSE Returned(WithKeys(Outcome("success", "cmd_volume_up", VolumeSteps(params) * 2),
                           Presses("volumeup", VolumeSteps(params))))

cmd_volume_down(params, os) ==
    IF os = "raise" THEN Raised("cmd_volume_down")
    ELSE Returned(WithKeys(Outcome("success", "cmd_volume_down", VolumeSteps(params) * 2),
                           Presses("volumedown", VolumeSteps(params))))

cmd_screenshot(params, os) ==
    Returned(Outcome("sentinel", "cmd_screenshot", 0))

cmd_list_macros(params, os) ==
    Returned(Outcome("success", "cmd_list_macros", Cardinality(DOMAIN MACRO_REGISTRY)))

cmd_simple(handler, params, os) ==
    IF os = "raise" THEN Raised(handler)
    ELSE Returned(Outcome("success", handler, 0))

cmd_guarded(handler, params, os) ==
    IF Get(params, GuardedHandlers[handler], "") = ""
    THEN Returned(Outcome("failure", handler, 0))
    ELSE IF os = "raise" \/ (handler = "cmd_type_text" /\ os = "nonzero")
    THEN Returned(Outcome("failure", handler, 0))
    ELSE Returned(Outcome("success", handler, 0))

(***************************************************************************)
(* execute_command / execute_macro / cmd_run_macro.                        *)
(*                                                                         *)
(* env is the sequence of OS results the dispatches meet: a plain          *)
(* dispatch uses its first entry, step i of a macro the i-th (missing      *)
(* entries are "ok").  A result is the record                              *)
(*   raised     : an exception propagates to the caller                    *)
(*   out        : the outcome string returned (when not raised)            *)
(*   dispatched : the calls of execute_command, in order: the intent and   *)
(*                params each received and the registered handler it       *)
(*                invoked ("" when it invoked none)                        *)
(***************************************************************************)
Os(env) == IF env = <<>> THEN "ok" ELSE Head(env)

Rest(env) == IF env = <<>> THEN <<>> ELSE Tail(env)

IsFailure(out) == out.kind \in {"failure", "error", "not_found"}

Dispatch(intent, params, handler) ==
    [intent |-> intent, params |-> params, handler |-> handler]

Result(raised, out, dispatched) ==
    [raised |-> raised, out |-> out, dispatched |-> dispatched]

\* the dispatches of a result that invoked a handler
Calls(r) == SelectSeq(r.dispatched, LAMBDA d : d.handler # "")

\* a handler other than cmd_run_macro: one invocation, one OS result
InvokeLeaf(handler, params, os) ==
    CASE handler = "cmd_shutdown"    -> cmd_shutdown(params, os)
      [] handler = "cmd_close_app"   -> cmd_close_app(params, os)
      [] handler = "cmd_volume_up"   -> cmd_volume_up(params, os)
      [] handler = "cmd_volume_down" -> cmd_volume_down(params, os)
      [] handler = "cmd_screenshot"  -> cmd_screenshot(params, os)
      [] handler = "cmd_list_macros" -> cmd_list_macros(params, os)
      [] handler \in DOMAIN GuardedHandlers -> cmd_guarded(handler, params, os)
      [] handler \in SimpleOsHandlers -> cmd_simple(handler, params, os)

\* faulty variant: execute_command without its try / except
CatchAllMissing(intent, r) == r

\* the try / except of execute_command around entry["handler"](params)
CatchAll(intent, r) ==
    IF r.raised
    THEN Result(FALSE, Outcome("error", intent, 0), r.dispatched)
    ELSE r

\* the try / except of execute_macro around one step: the report entry
StepEntry(intent, r) ==
    IF r.raised
    THEN [marker |-> "cross", intent |-> intent, out |-> Outcome("exception", intent, 0)]
    ELSE [marker |-> "check", intent |-> intent, out |-> r.out]

RECURSIVE ExecuteCommandIn(_, _, _, _)
RECURSIVE ExecuteMacroIn(_, _, _)
RECURSIVE RunSteps(_, _, _)

\* faulty variant: the loop of execute_macro stops at the first step that failed
RECURSIVE RunStepsAbort(_, _, _)
RunStepsAbort(macros, steps, env) ==
    IF steps = <<>>
    THEN [entries |-> <<>>, dispatched |-> <<>>]
    ELSE LET step == Head(steps)
             r    == ExecuteCommandIn(macros, step.intent, step.params, env)
             more == IF r.raised \/ IsFailure(r.out)
                     THEN [entries |-> <<>>, dispatched |-> <<>>]
                     ELSE RunStepsAbort(macros, Tail(steps), Rest(env))
         IN  [entries    |-> <<StepEntry(step.intent, r)>> \o more.entries,
              dispatched |-> r.dispatched \o more.dispatched]

\* the for loop of execute_macro: the report entries and the dispatches
RunSteps(macros, steps, env) ==
    IF steps = <<>>
    THEN [entries |-> <<>>, dispatched |-> <<>>]
    ELSE LET step == Head(steps)
             r    == ExecuteCommandIn(macros, step.intent, step.params, env)
             more == RunSteps(macros, Tail(steps), Rest(env))
         IN  [entries    |-> <<StepEntry(step.intent, r)>> \o more.entries,
              dispatched |-> r.dispatched \o more.dispatched]

\* execute_macro lines 266-268: MACRO_REGISTRY.get found nothing
MacroNotFound(macro_name) ==
    Result(FALSE, Outcome("not_found", macro_name, 0), <<>>)

ExecuteMacroIn(macros, macro_name, env) ==
    IF macro_name \notin DOMAIN macros
    THEN MacroNotFound(macro_name)
    ELSE LET run == RunSteps(macros, macros[macro_name], env)
         IN  Result(FALSE,
                    [kind |-> "report", who |-> macro_name, n |-> 0,
                     body |-> run.entries],
                    run.dispatched)

cmd_run_macro(macros, params, env) ==
    LET macro_name == Get(params, "macro", "")
    IN  IF macro_name = ""
        THEN Result(FALSE, Outcome("failure", "cmd_run_macro", 0), <<>>)
        ELSE ExecuteMacroIn(macros, macro_name, env)

\* faulty variant: no "if not entry" test, so that entry["handler"] fails inside the
\* try and the dispatcher answers with its execution-error message
CommandNotFoundUnchecked(intent, params) ==
    Result(FALSE, Outcome("error", intent, 0), <<Dispatch(intent, params, "")>>)

\* execute_command lines 255-257: COMMAND_REGISTRY.get found nothing
CommandNotFound(intent, params) ==
    Result(FALSE, Outcome("not_found", intent, 0), <<Dispatch(intent, params, "")>>)

ExecuteCommandIn(macros, intent, params, env) ==
    IF intent \notin DOMAIN COMMAND_REGISTRY
    THEN CommandNotFound(intent, params)
    ELSE LET handler == COMMAND_REGISTRY[intent]
             me      == <<Dispatch(intent, params, handler)>>
         IN  IF handler = "cmd_run_macro"
             THEN LET r == cmd_run_macro(macros, params, env)
                  IN  CatchAll(intent, Result(r.raised, r.out, me \o r.dispatched))
             ELSE LET r == InvokeLeaf(handler, params, Os(env))
                  IN  CatchAll(intent, Result(r.raised, r.out, me))

execute_command(intent, params, env) ==
    ExecuteCommandIn(MACRO_REGISTRY, intent, params, env)

execute_macro(macro_name, env) ==
    ExecuteMacroIn(MACRO_REGISTRY, macro_name, env)

(***************************************************************************)
(* handlers.py: the operator's text reply.                                 *)
(*   text = message.text.strip().lower()                                   *)
(*   text in ("da", "yes", "ok" (Cyrillic), "ok", "podtverzhdayu", "davay")*)
(***************************************************************************)
Whitespace == {" ", "nl", "tab"}

UpperToLower ==
    [ Y |-> "y", E |-> "e", S |-> "s", O |-> "o", K |-> "k", N |-> "n",
      CY_D |-> "cy_d", CY_A |-> "cy_a", CY_O |-> "cy_o", CY_K |-> "cy_k",
      CY_V |-> "cy_v", CY_J |-> "cy_j", CY_N |-> "cy_n", CY_E |-> "cy_e",
      CY_T |-> "cy_t", CY_P |-> "cy_p", CY_R |-> "cy_r", CY_ZH |-> "cy_zh",
      CY_YU |-> "cy_yu" ]

LowerChar(c) == IF c \in DOMAIN UpperToLower THEN UpperToLower[c] ELSE c

\* str.lower()
Lower(s) == [i \in 1..Len(s) |-> LowerChar(s[i])]

RECURSIVE LStrip(_)
LStrip(s) ==
    IF s # <<>> /\ Head(s) \in Whitespace THEN LStrip(Tail(s)) ELSE s

RECURSIVE RStrip(_)
RStrip(s) ==
    IF s # <<>> /\ s[Len(s)] \in Whitespace
    THEN RStrip(SubSeq(s, 1, Len(s) - 1))
    ELSE s

\* str.strip()
Strip(s) == RStrip(LStrip(s))

AFFIRMATIVE ==
    { <<"cy_d", "cy_a">>,
      <<"y", "e", "s">>,
      <<"cy_o", "cy_k">>,
      <<"o", "k">>,
      <<"cy_p", "cy_o", "cy_d", "cy_t", "cy_v", "cy_e", "cy_r", "cy_zh",
        "cy_d", "cy_a", "cy_yu">>,
      <<"cy_d", "cy_a", "cy_v", "cy_a", "cy_j">> }

\* faulty variant: the text is trimmed but its case is kept
NormalizeTextKeepCase(raw) == Strip(raw)

\* handle_text, lines 493 and 497
NormalizeText(raw) == Lower(Strip(raw))

\* faulty variant: every reply confirms
IsAffirmativeAlways(raw) == TRUE

IsAffirmative(raw) == NormalizeText(raw) \in AFFIRMATIVE

(***************************************************************************)
(* commands.py: parse_intent.  The classifier's answer is                  *)
(*   status : "no_client" | "api_error" | "empty" | "content"              *)
(*   fence  : "none" | "block" (```json newline ... ```) | "inline"        *)
(*   json   : whether the text inside parses as JSON                       *)
(*   value  : the descriptor the JSON holds                                *)
(* and parse_intent returns a descriptor or None (null = TRUE).            *)
(***************************************************************************)
Descriptor(intent, params) == [null |-> FALSE, intent |-> intent, params |-> params]

NullDescriptor == [null |-> TRUE, intent |-> "", params |-> NoParams]

parse_intent(response) ==
    IF response.status # "content" THEN NullDescriptor
    ELSE IF response.fence = "inline" THEN NullDescriptor
    ELSE IF ~response.json THEN NullDescriptor
    ELSE response.value

\* the descriptors the classifier is taken to answer with
ResolverValues ==
    { Descriptor("unknown", NoParams),
      Descriptor("shutdown", {<<"delay_seconds", 300>>}),
      Descriptor("restart", NoParams),
      Descriptor("screenshot", NoParams),
      Descriptor("run_macro", {<<"macro", "focus_mode">>}),
      Descriptor("open_browser", NoParams) }

Responses ==
    { [status |-> "no_client", fence |-> "none", json |-> FALSE, value |-> NullDescriptor],
      [status |-> "api_error", fence |-> "none", json |-> FALSE, value |-> NullDescriptor],
      [status |-> "empty",     fence |-> "none", json |-> FALSE, value |-> NullDescriptor],
      [status |-> "content",   fence |-> "none", json |-> FALSE, value |-> NullDescriptor],
      [status |-> "content",   fence |-> "inline", json |-> TRUE,
       value |-> Descriptor("restart", NoParams)],
      [status |-> "content",   fence |-> "block", json |-> TRUE,
       value |-> Descriptor("restart", NoParams)] }
    \cup
    { [status |-> "content", fence |-> "none", json |-> TRUE, value |-> v] :
        v \in ResolverValues }

(***************************************************************************)
(* handlers.py: wake word and reminder keywords.  A transcription is a     *)
(* sequence of words (transliterated); the wake-word pattern matches the   *)
(* first word, ignoring case.                                              *)
(***************************************************************************)
WAKE_WORDS == {"geks", "geksik", "hex", "geksi", "geksu", "heks"}

WordLower == [Hex |-> "hex", Geks |-> "geks", Napomni |-> "napomni"]

LowerWord(w) == IF w \in DOMAIN WordLower THEN WordLower[w] ELSE w

\* words that contain one of ("napomni", "napominanie", "remind")
ReminderWords == {"napomni", "napominanie", "remind", "reminder"}

\* returns the text after the wake word; matched = FALSE is None
extract_command_text(transcribed) ==
    IF transcribed # <<>> /\ LowerWord(Head(transcribed)) \in WAKE_WORDS
    THEN [matched |-> TRUE, text |-> Tail(transcribed)]
    ELSE [matched |-> FALSE, text |-> <<>>]

\* faulty variant: the keyword test without .lower()
HasReminderKeywordCased(command_text) ==
    \E i \in 1..Len(command_text) : command_text[i] \in ReminderWords

HasReminderKeyword(command_text) ==
    \E i \in 1..Len(command_text) : LowerWord(command_text[i]) \in ReminderWords

\* what the transcription service is taken to answer with (<<>>: nothing)
Transcripts ==
    { <<>>,
      <<"privet">>,
      <<"hex">>,
      <<"vyklyuchi", "hex">>,
      <<"Hex", "vyklyuchi">>,
      <<"geks", "Napomni", "chay">> }

\* the operator's plain-text messages
Texts ==
    { <<"cy_d", "cy_a">>,
      <<" ", "CY_D", "CY_A", "nl">>,
      <<"cy_n", "cy_e", "cy_t">>,
      <<"cy_d", "cy_a", "!">> }

(***************************************************************************)
(* The state.                                                              *)
(***************************************************************************)
Users == {1, 2}

\* the values of config.TELEGRAM_USER_ID (0: nobody configured)
OperatorIds == {0, 1}

\* the delay_seconds the reminder parser is taken to answer with
Delays == {0, 1}

\* wall-clock ticks of a run
MaxTime == 1

VARIABLES
    TELEGRAM_USER_ID,       \* config.py
    pending_confirmations,  \* handlers.py: user id -> stored descriptor
    user_modes,             \* handlers.py: user id -> mode
    tasks,                  \* the suspended handler coroutine of each message
    nmsgs,                  \* messages received so far
    reminders,              \* the rows of the reminders table, in id order
    now,                    \* the wall clock
    log,                    \* history of the gate, the dispatcher and the polls
    polls,                  \* the runs of scheduler.check_reminders, in order
    digests,                \* the runs of the two digest jobs, in order
    call,                   \* SpecPure: the last application of a function
    _bot                    \* scheduler.py: a delivery channel has been set

vars == << TELEGRAM_USER_ID, pending_confirmations, user_modes, tasks, nmsgs,
           reminders, now, log, polls, digests, call, _bot >>

\* a stored descriptor; tag names the voice message that stored it
NoPending == [set |-> FALSE, intent |-> "", params |-> NoParams, tag |-> 0]

Pending(intent_data, tag) ==
    [set |-> TRUE, intent |-> intent_data.intent, params |-> intent_data.params,
     tag |-> tag]

\* a handler coroutine: where it is suspended (pc), the message kind and
\* sender, its local variables (intent, params; tag names the voice message
\* whose descriptor they are) and, for a text message, the raw text
Task(pc, kind, user, intent, params, tag, text) ==
    [pc |-> pc, kind |-> kind, user |-> user, intent |-> intent,
     params |-> params, tag |-> tag, text |-> text]

NoTask == Task("none", "", 0, "", NoParams, 0, <<>>)

\* a handler that has returned
Done == Task("done", "", 0, "", NoParams, 0, <<>>)

\* a history entry:
\*   "store"    a descriptor was stored as pending (what: the intent)
\*   "text"     a text message of a user with a pending entry was handled
\*              (what: "affirmative" or "other"; reply: what the handler
\*              answered at once; tag: the pending entry it removed; text:
\*              the raw message text)
\*   "dispatch" execute_command was called (what: the intent; handler: the
\*              registered handler it invoked, "" when none)
\*   "direct"   the voice handler called take_screenshot_bytes
\* via is the kind of message ("voice", "text") whose handler did it
Event(ev, msg, user, what, params, handler, tag, via, reply, text) ==
    [ev |-> ev, msg |-> msg, user |-> user, what |-> what, params |-> params,
     handler |-> handler, tag |-> tag, via |-> via, reply |-> reply,
     text |-> text]

\* SpecPure: an application of execute_command (name: the intent) or of
\* execute_macro (name: the macro, macros: the registry it ran against)
Applied(fn, name, params, env, macros, res) ==
    [fn |-> fn, name |-> name, params |-> params, env |-> env,
     macros |-> macros, res |-> res]

NoCall == Applied("none", "", NoParams, <<>>, MACRO_REGISTRY,
                  Result(FALSE, Outcome("", "", 0), <<>>))

\* faulty variant: nobody is turned away
is_authorized_anyone(user_id) == TRUE

is_authorized(user_id) == TELEGRAM_USER_ID = 0 \/ user_id = TELEGRAM_USER_ID

Init ==
    /\ TELEGRAM_USER_ID \in OperatorIds
    /\ pending_confirmations = [u \in Users |-> NoPending]
    /\ user_modes = [u \in Users |-> "unset"]
    /\ tasks = [m \in 1..MaxMsgs |-> NoTask]
    /\ nmsgs = 0
    /\ reminders = <<>>
    /\ now = 0
    /\ log = <<>>
    /\ polls = <<>>
    /\ digests = <<>>
    /\ call = NoCall
    /\ _bot = (TELEGRAM_USER_ID # 0)

(***************************************************************************)
(* handlers.py: the confirmation gate and the voice command handler.       *)
(***************************************************************************)
\* faulty variant: a descriptor that is already pending is kept
StorePendingKeepFirst(pending, user_id, intent_data, tag) ==
    IF pending[user_id].set
    THEN pending
    ELSE [pending EXCEPT ![user_id] = Pending(intent_data, tag)]

\* line 83: pending_confirmations[message.from_user.id] = intent_data
StorePending(pending, user_id, intent_data, tag) ==
    [pending EXCEPT ![user_id] = Pending(intent_data, tag)]

\* faulty variant: the entry is read but not removed
PopPendingKeep(pending, user_id) == pending

\* line 496: pending_confirmations.pop(user_id)
PopPending(pending, user_id) == [pending EXCEPT ![user_id] = NoPending]

\* faulty variant: no test of DANGEROUS_INTENTS
VoiceRouteUngated(intent_data) ==
    IF intent_data.null \/ intent_data.intent = "unknown" THEN "unrecognized"
    ELSE IF intent_data.intent = "screenshot" THEN "screenshot"
    ELSE "dispatch"

\* faulty variant: every recognised intent asks for a confirmation
VoiceRouteConfirmAll(intent_data) ==
    IF intent_data.null \/ intent_data.intent = "unknown" THEN "unrecognized"
    ELSE "confirm"

\* faulty variant: line 72 without "not intent_data"
VoiceRouteNullUnchecked(intent_data) ==
    IF intent_data.intent = "unknown" THEN "unrecognized"
    ELSE IF intent_data.intent \in DANGEROUS_INTENTS THEN "confirm"
    ELSE IF intent_data.intent = "screenshot" THEN "screenshot"
    ELSE "dispatch"

\* handle_command_voice, lines 72-102: what is done with the parsed intent
VoiceRoute(intent_data) ==
    IF intent_data.null \/ intent_data.intent = "unknown" THEN "unrecognized"
    ELSE IF intent_data.intent \in DANGEROUS_INTENTS THEN "confirm"
    ELSE IF intent_data.intent = "screenshot" THEN "screenshot"
    ELSE "dispatch"

\* the modes the slash commands set (cmd_mode_meeting .. cmd_note)
ModeCommands ==
    [ mode_meeting   |-> "meeting",
      mode_idea      |-> "idea",
      mode_dictation |-> "dictation",
      diary          |-> "diary",
      note           |-> "note" ]

\* slash commands that only answer (cmd_start, cmd_limits, cmd_commands, ...;
\* cmd_reminders lists the sender's unfired reminders)
ReadOnlyCommands == {"limits", "reminders"}

\* the slash commands the operator is taken to send
SlashInputs == {"mode_meeting", "note", "limits", "reminders"}

\* handle_voice up to the end of the transcription: lines 363-409
VoiceArrive(u, transcript) ==
    /\ nmsgs < MaxMsgs
    /\ nmsgs' = nmsgs + 1
    /\ LET cmd == extract_command_text(transcript)
           t == IF ~is_authorized(u) \/ transcript = <<>> THEN Done
                ELSE IF cmd.matched /\ cmd.text # <<>>
                THEN IF HasReminderKeyword(cmd.text)
                     THEN Task("parse_reminder", "voice", u, "", NoParams, 0, <<>>)
                     ELSE Task("parse_intent", "voice", u, "", NoParams, 0, <<>>)
                ELSE Task("format", "voice", u, "", NoParams, 0, <<>>)
       IN  tasks' = [tasks EXCEPT ![nmsgs + 1] = t]
    /\ UNCHANGED << _bot, digests, polls, TELEGRAM_USER_ID, pending_confirmations, user_modes,
                    reminders, now, log, call >>

\* handle_command_voice after parse_intent returned: lines 70-102
ParseIntentDone(m, response) ==
    /\ tasks[m].pc = "parse_intent"
    /\ LET intent_data == parse_intent(response)
           u      == tasks[m].user
           route  == VoiceRoute(intent_data)
       IN  CASE route = "unrecognized" ->
                  /\ tasks' = [tasks EXCEPT ![m] = Done]
                  /\ UNCHANGED << pending_confirmations, log >>
             [] route = "confirm" ->
                  /\ pending_confirmations' =
                         StorePending(pending_confirmations, u, intent_data, m)
                  /\ log' = Append(log, Event("store", m, u, intent_data.intent,
                                              intent_data.params, "", m, "voice",
                                              "confirm_prompt", <<>>))
                  /\ tasks' = [tasks EXCEPT ![m] = Done]
             [] route = "screenshot" ->
                  /\ tasks' = [tasks EXCEPT ![m] =
                         Task("screenshot", "voice", u, intent_data.intent,
                              intent_data.params, m, <<>>)]
                  /\ UNCHANGED << pending_confirmations, log >>
             [] route = "dispatch" ->
                  /\ tasks' = [tasks EXCEPT ![m] =
                         Task("exec", "voice", u, intent_data.intent,
                              intent_data.params, m, <<>>)]
                  /\ UNCHANGED << pending_confirmations, log >>
    /\ UNCHANGED << _bot, digests, polls, TELEGRAM_USER_ID, user_modes, nmsgs, reminders, now, call >>

\* the history entries of one run of execute_command for task t of message m
DispatchEvents(m, t, r) ==
    [i \in 1..Len(r.dispatched) |->
        Event("dispatch", m, t.user, r.dispatched[i].intent,
              r.dispatched[i].params, r.dispatched[i].handler, t.tag, t.kind,
              "", <<>>)]

\* the offloaded execute_command of a voice command (line 102) or of a
\* confirmed descriptor (lines 501-504) runs and the handler answers
ExecDone(m, env) ==
    /\ tasks[m].pc = "exec"
    /\ LET r == execute_command(tasks[m].intent, tasks[m].params, env)
       IN  log' = log \o DispatchEvents(m, tasks[m], r)
    /\ tasks' = [tasks EXCEPT ![m] = Done]
    /\ UNCHANGED << _bot, digests, polls, TELEGRAM_USER_ID, pending_confirmations, user_modes, nmsgs,
                    reminders, now, call >>

\* handle_command_voice lines 91-100: take_screenshot_bytes, not the dispatcher
ScreenshotDone(m, png) ==
    /\ tasks[m].pc = "screenshot"
    /\ log' = Append(log, Event("direct", m, tasks[m].user, tasks[m].intent,
                                tasks[m].params, "take_screenshot_bytes",
                                tasks[m].tag, "voice", "", <<>>))
    /\ tasks' = [tasks EXCEPT ![m] = Done]
    /\ UNCHANGED << _bot, digests, polls, TELEGRAM_USER_ID, pending_confirmations, user_modes, nmsgs,
                    reminders, now, call >>

\* faulty variant: the text handler without its membership test
HasPendingAlways(pc, u) == TRUE

\* handle_text line 495: user_id in pending_confirmations
HasPending(pc, u) == pc[u].set

\* handle_text, lines 488-506, up to the offloaded call
TextArrive(u, raw) ==
    /\ nmsgs < MaxMsgs
    /\ nmsgs' = nmsgs + 1
    /\ LET m     == nmsgs + 1
           entry == pending_confirmations[u]
           word  == IF IsAffirmative(raw) THEN "affirmative" ELSE "other"
       IN  IF ~is_authorized(u)
           THEN /\ tasks' = [tasks EXCEPT ![m] = Done]
                /\ UNCHANGED << pending_confirmations, log >>
           ELSE IF HasPending(pending_confirmations, u)
           THEN /\ pending_confirmations' = PopPending(pending_confirmations, u)
                /\ tasks' = [tasks EXCEPT ![m] =
                       IF IsAffirmative(raw)
                       THEN Task("exec", "text", u, entry.intent, entry.params,
                                 entry.tag, raw)
                       ELSE Done]
                /\ log' = Append(log, Event("text", m, u, word, NoParams, "",
                                            entry.tag, "text",
                                            IF IsAffirmative(raw) THEN ""
                                            ELSE "cancelled", raw))
           ELSE /\ tasks' = [tasks EXCEPT ![m] = Done]
                /\ UNCHANGED << pending_confirmations, log >>
    /\ UNCHANGED << _bot, digests, polls, TELEGRAM_USER_ID, user_modes, reminders, now, call >>

\* cmd_mode_meeting, cmd_mode_idea, cmd_mode_dictation, cmd_diary, cmd_note
\* and the commands that only answer
SlashCommand(u, c) ==
    /\ nmsgs < MaxMsgs
    /\ nmsgs' = nmsgs + 1
    /\ tasks' = [tasks EXCEPT ![nmsgs + 1] = Done]
    /\ user_modes' =
           IF is_authorized(u) /\ c \in DOMAIN ModeCommands
           THEN [user_modes EXCEPT ![u] = ModeCommands[c]]
           ELSE user_modes
    /\ UNCHANGED << _bot, digests, polls, TELEGRAM_USER_ID, pending_confirmations, reminders, now,
                    log, call >>

\* handle_photo, lines 320-357
PhotoArrive(u) ==
    /\ nmsgs < MaxMsgs
    /\ nmsgs' = nmsgs + 1
    /\ tasks' = [tasks EXCEPT ![nmsgs + 1] = Done]
    /\ UNCHANGED << _bot, digests, polls, TELEGRAM_USER_ID, pending_confirmations, user_modes,
                    reminders, now, log, call >>

\* handle_voice lines 411-480: dictation (format, categorize, save, answer)
FormatDone(m) ==
    /\ tasks[m].pc = "format"
    /\ tasks' = [tasks EXCEPT ![m] = Done]
    /\ UNCHANGED << _bot, digests, polls, TELEGRAM_USER_ID, pending_confirmations, user_modes, nmsgs,
                    reminders, now, log, call >>

(***************************************************************************)
(* scheduler.py / db.py: reminders.                                        *)
(***************************************************************************)
\* what parse_reminder_from_text returns: None, or a JSON object that may
\* lack either key, or whose delay_seconds is not a number (numeric = FALSE)
ReminderParses ==
    { [null |-> TRUE,  has_delay |-> FALSE, has_text |-> FALSE, delay |-> 0,
       text |-> "", numeric |-> TRUE],
      [null |-> FALSE, has_delay |-> FALSE, has_text |-> TRUE,  delay |-> 0,
       text |-> "chay", numeric |-> TRUE],
      [null |-> FALSE, has_delay |-> TRUE,  has_text |-> FALSE, delay |-> 0,
       text |-> "", numeric |-> TRUE],
      [null |-> FALSE, has_delay |-> TRUE,  has_text |-> TRUE,  delay |-> 0,
       text |-> "chay", numeric |-> FALSE] }
    \cup
    { [null |-> FALSE, has_delay |-> TRUE, has_text |-> TRUE, delay |-> d,
       text |-> "chay", numeric |-> TRUE] : d \in Delays }

\* db.save_reminder: a new row with the next id (AUTOINCREMENT), fired = 0
save_reminder(rows, user_id, text, remind_at) ==
    Append(rows, [id |-> Len(rows) + 1, user_id |-> user_id, text |-> text,
                  remind_at |-> remind_at, fired |-> FALSE])

\* faulty variant: remind_at without the delay
create_reminder_at_once(rows, user_id, text, delay_seconds, t) ==
    save_reminder(rows, user_id, text, t)

\* scheduler.create_reminder: remind_at = now + delay_seconds
create_reminder(rows, user_id, text, delay_seconds, t) ==
    save_reminder(rows, user_id, text, t + delay_seconds)

\* handle_voice lines 396-406: the table and the answer after the parser
\* returned ("error": timedelta raises on a delay that is not a number and
\* the except of lines 482-484 answers)
ReminderBranch(rows, user_id, parsed, t) ==
    IF ~parsed.null /\ parsed.has_delay /\ parsed.has_text
    THEN IF parsed.numeric
         THEN [rows  |-> create_reminder(rows, user_id, parsed.text, parsed.delay, t),
               reply |-> "created", rid |-> Len(rows) + 1]
         ELSE [rows |-> rows, reply |-> "error", rid |-> 0]
    ELSE [rows |-> rows, reply |-> "parse_failed", rid |-> 0]

\* faulty variant: the query without "fired = 0"
DueIdsWithFired(rows, t) ==
    {rows[i].id : i \in {j \in 1..Len(rows) : rows[j].remind_at <= t}}

\* db.get_pending_reminders: the ids of the rows that are due and not fired
DueIds(rows, t) ==
    {rows[i].id : i \in {j \in 1..Len(rows) : ~rows[j].fired /\ rows[j].remind_at <= t}}

\* faulty variant: the update without effect
MarkFiredNothing(rows, ids) == rows

\* faulty variant: the update without its WHERE restricting the reset
MarkFiredOnlyThese(rows, ids) ==
    [i \in 1..Len(rows) |-> [rows[i] EXCEPT !.fired = (rows[i].id \in ids)]]

\* db.mark_reminder_fired for every id of a set
MarkFired(rows, ids) ==
    [i \in 1..Len(rows) |->
        IF rows[i].id \in ids THEN [rows[i] EXCEPT !.fired = TRUE] ELSE rows[i]]

\* handle_voice lines 394-407: the reminder branch after the parser returned
ParseReminderDone(m, parsed) ==
    /\ tasks[m].pc = "parse_reminder"
    /\ reminders' = ReminderBranch(reminders, tasks[m].user, parsed, now).rows
    /\ tasks' = [tasks EXCEPT ![m] = Done]
    /\ UNCHANGED << _bot, digests, polls, TELEGRAM_USER_ID, pending_confirmations, user_modes, nmsgs,
                    now, log, call >>

\* scheduler.check_reminders, run by the job start_scheduler adds (main starts
\* the scheduler only when TELEGRAM_USER_ID is set); the sends of the ids in
\* failing raise
CheckReminders(failing) ==
    /\ TELEGRAM_USER_ID # 0
    /\ failing \subseteq DueIds(reminders, now)
    /\ DueIds(reminders, now) # {}
    /\ reminders' = MarkFired(reminders, DueIds(reminders, now) \ failing)
    /\ UNCHANGED << _bot, digests, polls, TELEGRAM_USER_ID, pending_confirmations, user_modes, tasks,
                    nmsgs, now, log, call >>

Tick ==
    /\ now < MaxTime
    /\ now' = now + 1
    /\ UNCHANGED << _bot, digests, polls, TELEGRAM_USER_ID, pending_confirmations, user_modes, tasks,
                    nmsgs, reminders, log, call >>

(***************************************************************************)
(* scheduler.check_reminders step by step.  A run of check_reminders is a  *)
(* record                                                                  *)
(*   pc    : "send" (about to send the current reminder), "mark" (sent,    *)
(*           about to mark it fired), "done" (returned)                    *)
(*   fetch : whether get_pending_reminders returned (FALSE: it raised)     *)
(*   due   : the ids get_pending_reminders returned, in its order          *)
(*   i     : the position in due of the current reminder                   *)
(*   at    : the clock value the query compared remind_at with             *)
(* The history gets one "fetch" entry per query (what: "ok" or "failed"),  *)
(* one "send" entry per send_message (what: "sent" or "send_failed") and   *)
(* one "mark" entry per mark_reminder_fired (what: "marked" or             *)
(* "mark_failed"); msg is the number of the run and tag the reminder id.   *)
(***************************************************************************)
\* runs of check_reminders in a behaviour
MaxPolls == 2

Poll(pc, fetch, due, i, at) ==
    [pc |-> pc, fetch |-> fetch, due |-> due, i |-> i, at |-> at]

\* the sequences that list every element of S once
SeqsOf(S) ==
    {q \in [1..Cardinality(S) -> S] :
        \A a \in DOMAIN q, b \in DOMAIN q : a # b => q[a] # q[b]}

\* faulty variant: the query without its ORDER BY
DueListsAnyOrder(rows, t) == SeqsOf(DueIds(rows, t))

\* db.get_pending_reminders: the rows with fired = 0 and remind_at <= now,
\* ORDER BY remind_at ASC (rows with equal remind_at come in any order)
DueLists(rows, t) ==
    {q \in SeqsOf(DueIds(rows, t)) :
        \A a \in DOMAIN q, b \in DOMAIN q :
            a < b => rows[q[a]].remind_at <= rows[q[b]].remind_at}

\* faulty variant: the run returns after the first reminder it processed
NextReminderNone(poll) == [poll EXCEPT !.pc = "done"]

\* the run moves on to the next reminder of its list, or returns
NextReminder(poll) ==
    IF poll.i >= Len(poll.due)
    THEN [poll EXCEPT !.pc = "done"]
    ELSE [poll EXCEPT !.pc = "send", !.i = poll.i + 1]

\* check_reminders line 75: the query (fetched = FALSE: it raises, and the
\* outer except of lines 86-87 ends the run)
PollQuery(due, fetched) ==
    /\ Len(polls) < MaxPolls
    /\ due \in DueLists(reminders, now)
    /\ polls' = Append(polls,
           IF fetched /\ due # <<>>
           THEN Poll("send", TRUE, due, 1, now)
           ELSE Poll("done", fetched, IF fetched THEN due ELSE <<>>, 1, now))
    /\ log' = Append(log, Event("fetch", Len(polls) + 1, TELEGRAM_USER_ID,
                                IF fetched THEN "ok" ELSE "failed", NoParams, "",
                                0, "poll", "", <<>>))
    /\ UNCHANGED << _bot, digests, TELEGRAM_USER_ID, pending_confirmations, user_modes, tasks,
                    nmsgs, reminders, now, call >>

\* a run of the interval job, which __main__ registers (through
\* start_scheduler) only when an operator id is configured
PollFetch(due, fetched) ==
    /\ TELEGRAM_USER_ID # 0
    /\ PollQuery(due, fetched)

\* the interval job of start_scheduler (lines 133-137): a run starts only
\* when no earlier run is still executing
PollStart(due, fetched) ==
    /\ \A p \in 1..Len(polls) : polls[p].pc = "done"
    /\ PollFetch(due, fetched)

\* check_reminders lines 80-81: _bot.send_message for the current reminder
\* (ok = FALSE: it raises, and the except of lines 84-85 skips the marking);
\* with no channel set the "if _bot:" of line 80 skips the call and the run
\* goes on to line 82
PollSend(p, ok) ==
    /\ p \in 1..Len(polls)
    /\ polls[p].pc = "send"
    /\ LET id == polls[p].due[polls[p].i]
       IN  IF _bot
           THEN /\ log' = Append(log, Event("send", p, reminders[id].user_id,
                                            IF ok THEN "sent" ELSE "send_failed",
                                            NoParams, "", id, "poll", "", <<>>))
                /\ polls' = [polls EXCEPT ![p] =
                       IF ok THEN [polls[p] EXCEPT !.pc = "mark"]
                       ELSE NextReminder(polls[p])]
           ELSE /\ ok
                /\ log' = log
                /\ polls' = [polls EXCEPT ![p] = [polls[p] EXCEPT !.pc = "mark"]]
    /\ UNCHANGED << _bot, digests, TELEGRAM_USER_ID, pending_confirmations, user_modes, tasks,
                    nmsgs, reminders, now, call >>

\* check_reminders line 82: db.mark_reminder_fired for the reminder just sent
\* (ok = FALSE: the update raises, caught by the except of lines 84-85)
PollMark(p, ok) ==
    /\ p \in 1..Len(polls)
    /\ polls[p].pc = "mark"
    /\ LET id == polls[p].due[polls[p].i]
       IN  /\ reminders' = IF ok THEN MarkFired(reminders, {id}) ELSE reminders
           /\ log' = Append(log, Event("mark", p, reminders[id].user_id,
                                       IF ok THEN "marked" ELSE "mark_failed",
                                       NoParams, "", id, "poll", "", <<>>))
           /\ polls' = [polls EXCEPT ![p] = NextReminder(polls[p])]
    /\ UNCHANGED << _bot, digests, TELEGRAM_USER_ID, pending_confirmations, user_modes, tasks,
                    nmsgs, now, call >>

\* the transcriptions that handle_voice takes as a reminder request
ReminderTranscripts ==
    {t \in Transcripts :
        /\ extract_command_text(t).matched
        /\ HasReminderKeyword(extract_command_text(t).text)}

\* reminders alone: creation, listing, the clock and the polls
NextRem ==
    \/ \E u \in Users, transcript \in ReminderTranscripts : VoiceArrive(u, transcript)
    \/ \E m \in 1..MaxMsgs, parsed \in ReminderParses : ParseReminderDone(m, parsed)
    \/ \E u \in Users : SlashCommand(u, "reminders")
    \/ Tick
    \/ \E due \in DueLists(reminders, now), fetched \in BOOLEAN : PollStart(due, fetched)
    \/ \E p \in 1..MaxPolls, ok \in BOOLEAN : PollSend(p, ok)
    \/ \E p \in 1..MaxPolls, ok \in BOOLEAN : PollMark(p, ok)

SpecRem == Init /\ [][NextRem]_vars

\* reminder requests of a run with overlapping polls
MaxOverlapMsgs == 2

\* the same with check_reminders started while an earlier run of it is still
\* suspended at one of its awaits
NextRemOverlap ==
    \/ /\ nmsgs < MaxOverlapMsgs
       /\ \E u \in Users, transcript \in ReminderTranscripts : VoiceArrive(u, transcript)
    \/ \E m \in 1..MaxMsgs, parsed \in ReminderParses : ParseReminderDone(m, parsed)
    \/ Tick
    \/ \E due \in DueLists(reminders, now), fetched \in BOOLEAN : PollFetch(due, fetched)
    \/ \E p \in 1..MaxPolls, ok \in BOOLEAN : PollSend(p, ok)
    \/ \E p \in 1..MaxPolls, ok \in BOOLEAN : PollMark(p, ok)

SpecRemOverlap == Init /\ [][NextRemOverlap]_vars

\* scheduler.py as imported: line 15, no delivery channel yet
InitModule ==
    /\ TELEGRAM_USER_ID \in OperatorIds
    /\ pending_confirmations = [u \in Users |-> NoPending]
    /\ user_modes = [u \in Users |-> "unset"]
    /\ tasks = [m \in 1..MaxMsgs |-> NoTask]
    /\ nmsgs = 0
    /\ reminders = <<>>
    /\ now = 0
    /\ log = <<>>
    /\ polls = <<>>
    /\ digests = <<>>
    /\ call = NoCall
    /\ _bot = FALSE

\* start_scheduler line 118: the delivery channel is set
start_scheduler ==
    /\ ~_bot
    /\ _bot' = TRUE
    /\ UNCHANGED << digests, polls, TELEGRAM_USER_ID, pending_confirmations, user_modes,
                    tasks, nmsgs, reminders, now, log, call >>

\* check_reminders called as a function of the module, one call after the
\* other, whether or not start_scheduler has run
check_reminders(due, fetched) ==
    /\ \A p \in 1..Len(polls) : polls[p].pc = "done"
    /\ PollQuery(due, fetched)

\* reminder requests of a run of the module's functions
MaxSchedMsgs == 2

\* the scheduler module by itself: its functions in any order
NextSched ==
    \/ /\ nmsgs < MaxSchedMsgs
       /\ \E u \in Users, transcript \in ReminderTranscripts : VoiceArrive(u, transcript)
    \/ \E m \in 1..MaxMsgs, parsed \in ReminderParses : ParseReminderDone(m, parsed)
    \/ Tick
    \/ start_scheduler
    \/ \E due \in DueLists(reminders, now), fetched \in BOOLEAN :
           check_reminders(due, fetched)
    \/ \E p \in 1..MaxPolls, ok \in BOOLEAN : PollSend(p, ok)
    \/ \E p \in 1..MaxPolls, ok \in BOOLEAN : PollMark(p, ok)

SpecSched == InitModule /\ [][NextSched]_vars

\* C29: a reminder is marked fired only after a send of that reminder
\* completed without error earlier in the same run of check_reminders,
\* whether or not start_scheduler has set the delivery channel.
C29_FiredOnlyAfterSend ==
    \A k \in 1..Len(log) :
        (log[k].ev = "mark" /\ log[k].what = "marked") =>
            \E j \in 1..(k - 1) :
                /\ log[j].ev = "send"
                /\ log[j].what = "sent"
                /\ log[j].msg = log[k].msg
                /\ log[j].tag = log[k].tag

\* The scheduling of the reminders: time passes, the interval job of
\* start_scheduler starts a run of check_reminders whenever it is registered
\* and no run is in progress, a run that awaits a call gets its answer, and
\* the notification channel and the database accept a call that is offered
\* again and again.
RemFairness ==
    /\ WF_vars(Tick)
    /\ WF_vars(\E due \in DueLists(reminders, now) : PollStart(due, TRUE))
    /\ \A p \in 1..MaxPolls :
          /\ WF_vars(\E ok \in BOOLEAN : PollSend(p, ok))
          /\ WF_vars(\E ok \in BOOLEAN : PollMark(p, ok))
    /\ SF_vars(\E p \in 1..MaxPolls : PollSend(p, TRUE))
    /\ SF_vars(\E p \in 1..MaxPolls : PollMark(p, TRUE))

SpecRemLive == SpecRem /\ RemFairness

(***************************************************************************)
(* scheduler.py: the daily and the weekly digest job.  A run queries the   *)
(* transcriptions of its window, has llm_call summarise them in a worker   *)
(* thread and sends the summary.  entries is the number of rows the query  *)
(* returned; digest is what llm_call returned ("none": None, "empty": the  *)
(* empty string, "text": a summary); sends counts the send_message calls.  *)
(***************************************************************************)
MaxDigests == 3

MaxEntries == 2

DigestKinds == {"daily", "weekly"}

LlmResults == {"none", "empty", "text"}

Digest(kind, pc, entries, digest, sends, delivered, raised) ==
    [kind |-> kind, pc |-> pc, entries |-> entries, digest |-> digest,
     sends |-> sends, delivered |-> delivered, raised |-> raised]

\* generate_daily_digest / generate_weekly_digest up to the offloaded call:
\* a failing query raises, no entries returns None at once
AfterQuery(kind, entries, db_ok) ==
    IF ~db_ok THEN Digest(kind, "done", 0, "none", 0, FALSE, TRUE)
    ELSE IF entries = 0 THEN Digest(kind, "done", 0, "none", 0, FALSE, FALSE)
    ELSE Digest(kind, "generate", entries, "none", 0, FALSE, FALSE)

\* _send_daily_digest / _send_weekly_digest: "if digest:"
AfterGenerate(run, result) ==
    [run EXCEPT !.digest = result,
                !.pc = IF result = "text" THEN "send" ELSE "done"]

\* faulty variant: a failed send is tried again
AfterSendRetry(run, ok) ==
    [run EXCEPT !.sends = run.sends + 1, !.delivered = ok,
                !.pc = IF ok THEN "done" ELSE "send"]

\* the try/except around send_message: one call, its failure only logged
AfterSend(run, ok) ==
    [run EXCEPT !.sends = run.sends + 1, !.delivered = ok, !.pc = "done"]

\* a cron trigger fires (the jobs exist only if start_scheduler was called,
\* which also sets _bot and _user_id)
DigestTrigger(kind, entries, db_ok) ==
    /\ TELEGRAM_USER_ID # 0
    /\ Len(digests) < MaxDigests
    /\ digests' = Append(digests, AfterQuery(kind, entries, db_ok))
    /\ UNCHANGED << _bot, polls, TELEGRAM_USER_ID, pending_confirmations, user_modes, tasks,
                    nmsgs, reminders, now, log, call >>

\* the offloaded llm_call returns
DigestGenerated(d, result) ==
    /\ d \in 1..Len(digests)
    /\ digests[d].pc = "generate"
    /\ digests' = [digests EXCEPT ![d] = AfterGenerate(digests[d], result)]
    /\ UNCHANGED << _bot, polls, TELEGRAM_USER_ID, pending_confirmations, user_modes, tasks,
                    nmsgs, reminders, now, log, call >>

\* send_message returns or raises
DigestSend(d, ok) ==
    /\ d \in 1..Len(digests)
    /\ digests[d].pc = "send"
    /\ digests' = [digests EXCEPT ![d] = AfterSend(digests[d], ok)]
    /\ UNCHANGED << _bot, polls, TELEGRAM_USER_ID, pending_confirmations, user_modes, tasks,
                    nmsgs, reminders, now, log, call >>

NextDigest ==
    \/ \E kind \in DigestKinds, entries \in 0..MaxEntries, db_ok \in BOOLEAN :
           DigestTrigger(kind, entries, db_ok)
    \/ \E d \in 1..MaxDigests, result \in LlmResults : DigestGenerated(d, result)
    \/ \E d \in 1..MaxDigests, ok \in BOOLEAN : DigestSend(d, ok)

SpecDigest == Init /\ [][NextDigest]_vars

(***************************************************************************)
(* scheduler.py / db.py: the window of the daily digest.  An instant is a  *)
(* number of hours since 2026-11-01 00:00 UTC; the process runs in a time  *)
(* zone off hours ahead of UTC.  A timestamp string is the sequence of the *)
(* codes of its characters, as SQLite compares TEXT values byte by byte.   *)
(*   created_at  DEFAULT CURRENT_TIMESTAMP : "2026-11-DD HH:MM:SS", UTC    *)
(*   since       datetime.now().replace(hour=0, minute=0, second=0)        *)
(*               .isoformat() : "2026-11-DDTHH:MM:SS[.ffffff]", local time *)
(***************************************************************************)
MaxRows == 2

\* the day a run covers: instants from FirstInstant up to LastInstant
FirstInstant == 24

LastInstant == 71

UtcOffsets == {0 - 5, 0, 3}

\* "0" .. "9", "-", " ", "T", ":", "."
Digit(n) == 48 + n

Digits2(n) == << Digit(n \div 10), Digit(n % 10) >>

DatePrefix == << Digit(2), Digit(0), Digit(2), Digit(6), 45, Digit(1), Digit(1), 45 >>

ZeroMinutes == << 58, Digit(0), Digit(0), 58, Digit(0), Digit(0) >>

Microseconds == << 46, Digit(0), Digit(0), Digit(0), Digit(1), Digit(2), Digit(3) >>

DayOf(instant) == 1 + instant \div 24

HourOf(instant) == instant % 24

\* SQLite's CURRENT_TIMESTAMP at a UTC instant
CURRENT_TIMESTAMP(instant) ==
    DatePrefix \o Digits2(DayOf(instant)) \o << 32 >> \o Digits2(HourOf(instant))
        \o ZeroMinutes

\* datetime.isoformat() of a naive local time (micro: its microsecond is not 0)
isoformat(day, hour, micro) ==
    DatePrefix \o Digits2(day) \o << 84 >> \o Digits2(hour) \o ZeroMinutes
        \o (IF micro THEN Microseconds ELSE << >>)

\* generate_daily_digest line 22: midnight of the local day, microsecond kept
DailySince(instant, off, micro) == isoformat(DayOf(instant + off), 0, micro)

\* the comparison a >= b of two TEXT values (memcmp, then the length)
TextGeq(a, b) ==
    LET n    == IF Len(a) <= Len(b) THEN Len(a) ELSE Len(b)
        diff == {i \in 1..n : a[i] # b[i]}
    IN  IF diff = {} THEN Len(a) >= Len(b)
        ELSE LET k == CHOOSE i \in diff : \A j \in diff : i <= j
             IN  a[k] > b[k]

\* db.save_transcription at a UTC instant: created_at is the column default
Transcription(user_id, instant) ==
    [user_id |-> user_id, saved |-> instant, created_at |-> CURRENT_TIMESTAMP(instant)]

\* db.get_transcriptions_since: WHERE user_id = ? AND created_at >= ?
get_transcriptions_since(rows, user_id, since) ==
    SelectSeq(rows, LAMBDA r : r.user_id = user_id /\ TextGeq(r.created_at, since))

\* the instants transcriptions are saved at: 10:00, 20:00 and 23:00 UTC of
\* the first day, 02:00 and 10:00 UTC of the second
SaveInstants == {34, 44, 47, 50, 58}

\* the tables of at most MaxRows transcriptions, written in time order
TranscriptionTables ==
    UNION { { q \in [1..n -> {Transcription(u, i) : u \in Users, i \in SaveInstants}] :
                \A a \in 1..n, b \in 1..n : a < b => q[a].saved <= q[b].saved }
            : n \in 0..MaxRows }

\* the instants at which the daily trigger (21:00 local time) fires
DailyTriggers(off) ==
    {i \in FirstInstant..LastInstant : HourOf(i + off) = 21}

Gathered(rows, user_id, instant, off, micro, entries) ==
    [fn |-> "generate_daily_digest", rows |-> rows, user_id |-> user_id,
     instant |-> instant, off |-> off, micro |-> micro, entries |-> entries]

\* generate_daily_digest lines 22-23 applied to a table at a trigger
CallDailyGather ==
    /\ call.fn = "none"
    /\ TELEGRAM_USER_ID # 0
    /\ \E rows \in TranscriptionTables, off \in UtcOffsets, micro \in BOOLEAN :
          \E instant \in DailyTriggers(off) :
              call' = Gathered(rows, TELEGRAM_USER_ID, instant, off, micro,
                               get_transcriptions_since(rows, TELEGRAM_USER_ID,
                                   DailySince(instant, off, micro)))
    /\ UNCHANGED << _bot, digests, polls, TELEGRAM_USER_ID, pending_confirmations, user_modes,
                    tasks, nmsgs, reminders, now, log >>

SpecWindow == Init /\ [][CallDailyGather]_vars

\* the OS results an offloaded dispatch may meet
Envs == [1..2 -> OsResults]

Next ==
    \/ \E u \in Users, transcript \in Transcripts : VoiceArrive(u, transcript)
    \/ \E m \in 1..MaxMsgs, response \in Responses : ParseIntentDone(m, response)
    \/ \E m \in 1..MaxMsgs, env \in Envs : ExecDone(m, env)
    \/ \E m \in 1..MaxMsgs, png \in BOOLEAN : ScreenshotDone(m, png)
    \/ \E u \in Users, raw \in Texts : TextArrive(u, raw)
    \/ \E u \in Users, c \in SlashInputs : SlashCommand(u, c)
    \/ \E u \in Users : PhotoArrive(u)
    \/ \E m \in 1..MaxMsgs : FormatDone(m)
    \/ \E m \in 1..MaxMsgs, parsed \in ReminderParses : ParseReminderDone(m, parsed)
    \/ \E failing \in SUBSET DueIds(reminders, now) : CheckReminders(failing)
    \/ Tick

Spec == Init /\ [][Next]_vars

\* the transcriptions that handle_voice passes to handle_command_voice
CommandTranscripts ==
    {t \in Transcripts :
        /\ extract_command_text(t).matched
        /\ extract_command_text(t).text # <<>>
        /\ ~HasReminderKeyword(extract_command_text(t).text)}

\* the confirmation gate alone: voice commands and text messages
NextGate ==
    \/ \E u \in Users, transcript \in CommandTranscripts : VoiceArrive(u, transcript)
    \/ \E m \in 1..MaxMsgs, response \in Responses : ParseIntentDone(m, response)
    \/ \E m \in 1..MaxMsgs, env \in Envs : ExecDone(m, env)
    \/ \E m \in 1..MaxMsgs, png \in BOOLEAN : ScreenshotDone(m, png)
    \/ \E u \in Users, raw \in Texts : TextArrive(u, raw)

SpecGate == Init /\ [][NextGate]_vars

(***************************************************************************)
(* SpecPure: the dispatcher and the macro runner applied to bounded inputs.*)
(***************************************************************************)
TestIntents == DOMAIN COMMAND_REGISTRY \cup {"open_browser", "Shutdown", ""}

TestParams ==
    { NoParams,
      {<<"delay_seconds", 300>>},
      {<<"percent", 10>>},
      {<<"percent", 1>>},
      {<<"percent", 0 - 4>>},
      {<<"name", "telegram">>},
      {<<"macro", "focus_mode">>},
      {<<"macro", "no_such_macro">>} }

TestMacroNames == DOMAIN MACRO_REGISTRY \cup {"no_such_macro", "Focus_Mode"}

\* steps of the hypothetical macros: two that work or fail with the OS, one
\* whose intent is not registered, one whose executor refuses its params
TestSteps ==
    { Step("volume_mute", NoParams),
      Step("close_app", {<<"name", "telegram">>}),
      Step("no_such_intent", NoParams),
      Step("open_app", NoParams) }

RECURSIVE SeqsUpTo(_, _)
SeqsUpTo(S, n) ==
    IF n = 0 THEN {<<>>}
    ELSE LET shorter == SeqsUpTo(S, n - 1)
         IN  shorter \cup {Append(q, x) : q \in shorter, x \in S}

TestEnvs == [1..MaxSteps -> OsResults]

\* the registry with one more macro, test_macro, made of steps
WithTestMacro(steps) == [test_macro |-> steps] @@ MACRO_REGISTRY

CallExecuteCommand ==
    /\ call.fn = "none"
    /\ \E intent \in TestIntents, params \in TestParams, env \in TestEnvs :
           call' = Applied("execute_command", intent, params, env, MACRO_REGISTRY,
                           execute_command(intent, params, env))
    /\ UNCHANGED << _bot, digests, polls, TELEGRAM_USER_ID, pending_confirmations, user_modes, tasks,
                    nmsgs, reminders, now, log >>

CallExecuteMacro ==
    /\ call.fn = "none"
    /\ \E macro_name \in TestMacroNames, env \in TestEnvs :
           call' = Applied("execute_macro", macro_name, NoParams, env,
                           MACRO_REGISTRY, execute_macro(macro_name, env))
    /\ UNCHANGED << _bot, digests, polls, TELEGRAM_USER_ID, pending_confirmations, user_modes, tasks,
                    nmsgs, reminders, now, log >>

CallTestMacro ==
    /\ call.fn = "none"
    /\ \E steps \in SeqsUpTo(TestSteps, MaxSteps), env \in TestEnvs :
           call' = Applied("execute_macro", "test_macro", NoParams, env,
                           WithTestMacro(steps),
                           ExecuteMacroIn(WithTestMacro(steps), "test_macro", env))
    /\ UNCHANGED << _bot, digests, polls, TELEGRAM_USER_ID, pending_confirmations, user_modes, tasks,
                    nmsgs, reminders, now, log >>

\* the percent values volume_up and volume_down are applied to
MaxPercent == 12

TestPercents == (0 - MaxPercent)..MaxPercent

CallVolume ==
    /\ call.fn = "none"
    /\ \E intent \in {"volume_up", "volume_down"}, percent \in TestPercents,
          os \in OsResults :
           call' = Applied("execute_command", intent, {<<"percent", percent>>},
                           <<os>>, MACRO_REGISTRY,
                           execute_command(intent, {<<"percent", percent>>}, <<os>>))
    /\ UNCHANGED << _bot, digests, polls, TELEGRAM_USER_ID, pending_confirmations, user_modes,
                    tasks, nmsgs, reminders, now, log >>

NextPure == CallExecuteCommand \/ CallExecuteMacro \/ CallTestMacro \/ CallVolume

SpecPure == Init /\ [][NextPure]_vars

(***************************************************************************)
(* The confirmation gate (SpecGate, SpecGateLive, Spec).                   *)
(***************************************************************************)
LogIdx == 1..Len(log)

DangerousHandlers == {COMMAND_REGISTRY[i] : i \in DANGEROUS_INTENTS}

\* the reply is in the affirmative vocabulary once trimmed and lower-cased
SaysYes(raw) == Lower(Strip(raw)) \in AFFIRMATIVE

\* user u sends a text (a handled text message is the only step that takes
\* a message and, for a user with a pending entry, writes a "text" entry)
TextOf(u) == \E raw \in Texts : TextArrive(u, raw)

\* C1: under any interleaving of voice and text handling, an executor of a
\* dangerous intent is invoked only if that intent was stored earlier as the
\* pending confirmation of some operator id and, after that, an affirmative
\* text of the same operator id was handled; no other operator's reply and no
\* affirmative text from before the store leads to the invocation.
C1_DangerousOnlyAfterConfirmation ==
    \A k \in LogIdx :
        (log[k].ev = "dispatch" /\ log[k].handler \in DangerousHandlers) =>
            \E i \in 1..(k - 1), j \in 1..(k - 1) :
                /\ i < j
                /\ log[i].ev = "store"
                /\ log[i].what = log[k].what
                /\ log[i].user = log[k].user
                /\ log[j].ev = "text"
                /\ log[j].user = log[i].user
                /\ SaysYes(log[j].text)

C1_Witness ==
    /\ TELEGRAM_USER_ID = 0
    /\ Len(log) = 3
    /\ log[1].ev = "store" /\ log[1].user = 2 /\ log[1].what = "shutdown"
    /\ log[2].ev = "text" /\ log[2].user = 2 /\ SaysYes(log[2].text)
    /\ log[3].ev = "dispatch" /\ log[3].user = 2
    /\ log[3].handler = "cmd_shutdown"

\* C2: when an operator has a pending confirmation and their next plain-text
\* message is outside the affirmative vocabulary, the pending entry is removed,
\* the operator gets the cancellation reply, the handler returns without
\* calling the dispatcher, and nothing is ever resolved, stored or dispatched
\* for that message.
C2_OtherReplyCancels ==
    /\ [][\A u \in Users, raw \in Texts :
            (pending_confirmations[u].set /\ ~SaysYes(raw) /\ TextArrive(u, raw)) =>
                /\ ~pending_confirmations'[u].set
                /\ tasks'[nmsgs + 1] = Done
                /\ log' = Append(log, Event("text", nmsgs + 1, u, "other", NoParams,
                                            "", pending_confirmations[u].tag,
                                            "text", "cancelled", raw))]_vars
    /\ [](\A j \in LogIdx, k \in LogIdx :
            (log[j].ev = "text" /\ ~SaysYes(log[j].text) /\ log[k].msg = log[j].msg)
                => k = j)

C2_Witness ==
    /\ Len(log) = 2
    /\ log[1].ev = "store" /\ log[1].what = "shutdown"
    /\ log[2].ev = "text" /\ log[2].user = log[1].user
    /\ log[2].text = <<"cy_n", "cy_e", "cy_t">>
    /\ log[2].reply = "cancelled"
    /\ ~pending_confirmations[log[1].user].set
    /\ tasks[log[2].msg] = Done

\* C3: when an operator has a pending confirmation and their next plain-text
\* message, trimmed and lower-cased, is in the affirmative vocabulary, the
\* pending entry is removed and the dispatcher is called (offloaded, and
\* never blocked) with the stored intent and exactly the stored params, which
\* invokes the registered executor of that intent with those params.
C3_AffirmativeReplyExecutesStored ==
    /\ [][\A u \in Users, raw \in Texts :
            (pending_confirmations[u].set /\ SaysYes(raw) /\ TextArrive(u, raw)) =>
                /\ ~pending_confirmations'[u].set
                /\ tasks'[nmsgs + 1] =
                       Task("exec", "text", u, pending_confirmations[u].intent,
                            pending_confirmations[u].params,
                            pending_confirmations[u].tag, raw)]_vars
    /\ [](\A k \in LogIdx :
            (log[k].ev = "dispatch" /\ log[k].via = "text") =>
                /\ log[k].handler = COMMAND_REGISTRY[log[k].what]
                /\ \E i \in 1..(k - 1) :
                      /\ log[i].ev = "store"
                      /\ log[i].msg = log[k].tag
                      /\ log[i].user = log[k].user
                      /\ log[i].what = log[k].what
                      /\ log[i].params = log[k].params)
    /\ [](\A m \in 1..MaxMsgs :
            (tasks[m].pc = "exec" /\ tasks[m].kind = "text") =>
                ENABLED (\E env \in Envs : ExecDone(m, env)))
    /\ [][\A m \in 1..MaxMsgs :
            (tasks[m].pc = "exec" /\ tasks[m].kind = "text" /\ tasks'[m] # tasks[m]) =>
                /\ tasks'[m] = Done
                /\ log' = Append(log,
                       Event("dispatch", m, tasks[m].user, tasks[m].intent,
                             tasks[m].params, COMMAND_REGISTRY[tasks[m].intent],
                             tasks[m].tag, "text", "", <<>>))]_vars

C3_Witness ==
    /\ Len(log) = 3
    /\ log[1].ev = "store" /\ log[1].what = "shutdown"
    /\ log[1].params = {<<"delay_seconds", 300>>}
    /\ log[2].ev = "text" /\ log[2].text = <<" ", "CY_D", "CY_A", "nl">>
    /\ log[3].ev = "dispatch" /\ log[3].msg = log[2].msg
    /\ log[3].handler = "cmd_shutdown"
    /\ log[3].params = {<<"delay_seconds", 300>>}
    /\ ~pending_confirmations[log[1].user].set

\* the executor calls made or in flight for the descriptor that voice message
\* t stored: finished dispatches of the text handler and suspended ones
ExecutionsOf(t) ==
    Cardinality({k \in LogIdx :
                    log[k].ev = "dispatch" /\ log[k].via = "text" /\ log[k].tag = t})
        + Cardinality({m \in 1..MaxMsgs :
                    tasks[m].pc = "exec" /\ tasks[m].kind = "text" /\ tasks[m].tag = t})

\* C25: each stored pending descriptor is executed at most once: the text
\* handler removes the entry in the step that starts the offloaded executor
\* call, so an affirmative text of the same operator that is handled later,
\* also while that call is still in flight, finds no entry, starts no
\* executor call and changes nothing.
C25_PendingExecutedAtMostOnce ==
    /\ [](\A t \in 1..MaxMsgs : ExecutionsOf(t) <= 1)
    /\ [](\A m \in 1..MaxMsgs :
            (tasks[m].pc = "exec" /\ tasks[m].kind = "text") =>
                pending_confirmations[tasks[m].user].tag # tasks[m].tag)
    /\ [][\A u \in Users, raw \in Texts :
            (~pending_confirmations[u].set /\ SaysYes(raw) /\ TextArrive(u, raw)) =>
                /\ tasks'[nmsgs + 1] = Done
                /\ log' = log
                /\ pending_confirmations' = pending_confirmations]_vars

C25_Witness ==
    /\ nmsgs = 3
    /\ tasks[2].pc = "exec" /\ tasks[2].kind = "text" /\ tasks[2].tag = 1
    /\ tasks[3] = Done
    /\ Len(log) = 2
    /\ log[1].ev = "store" /\ log[2].ev = "text"
    /\ ~pending_confirmations[tasks[2].user].set
    /\ ExecutionsOf(1) = 1

\* this step takes in a message of user u: voice, text, photo or slash command
MessageOf(u) ==
    \/ \E transcript \in Transcripts : VoiceArrive(u, transcript)
    \/ \E raw \in Texts : TextArrive(u, raw)
    \/ PhotoArrive(u)
    \/ \E c \in SlashInputs : SlashCommand(u, c)

\* a handler suspended at an external call (transcription formatting, intent
\* or reminder resolver, executor, screenshot)
Suspended(t) == t.pc \notin {"none", "done"}

\* C26: with a nonzero configured operator id, a voice, text, photo or slash
\* command message of any other user returns at once: no executor and no
\* resolver is called, no reminder is created, pending_confirmations and
\* user_modes stay as they are, and nothing in the state ever belongs to
\* another user; with the configured id 0 every user id is authorized.
C26_OnlyTheOperatorActs ==
    /\ [][TELEGRAM_USER_ID # 0 =>
            \A u \in Users \ {TELEGRAM_USER_ID} :
                MessageOf(u) =>
                    /\ tasks'[nmsgs + 1] = Done
                    /\ UNCHANGED << pending_confirmations, user_modes, reminders,
                                    log >>]_vars
    /\ [](TELEGRAM_USER_ID # 0 =>
            /\ \A m \in 1..MaxMsgs :
                  Suspended(tasks[m]) => tasks[m].user = TELEGRAM_USER_ID
            /\ \A k \in 1..Len(log) : log[k].user = TELEGRAM_USER_ID
            /\ \A i \in 1..Len(reminders) : reminders[i].user_id = TELEGRAM_USER_ID
            /\ \A u \in Users \ {TELEGRAM_USER_ID} :
                  ~pending_confirmations[u].set /\ user_modes[u] = "unset")
    /\ [](TELEGRAM_USER_ID = 0 => \A u \in Users : is_authorized(u))

C26_Witness ==
    /\ TELEGRAM_USER_ID = 1
    /\ nmsgs = 3
    /\ \A m \in 1..3 : tasks[m] = Done
    /\ pending_confirmations[1].set /\ pending_confirmations[1].tag = 1
    /\ ~pending_confirmations[2].set
    /\ user_modes = [u \in Users |-> "unset"]
    /\ Len(log) = 1
    /\ reminders = <<>>

\* the spellings of the wake word and of the reminder keywords that occur in
\* the transcriptions
WakeForms == {"geks", "Geks", "hex", "Hex", "geksik", "geksi", "geksu", "heks"}

KeywordForms == {"napomni", "Napomni", "napominanie", "remind", "reminder"}

\* the transcription starts with the wake word and names a reminder keyword
\* after it
IsReminderRequest(transcript) ==
    /\ transcript # <<>>
    /\ Head(transcript) \in WakeForms
    /\ \E i \in 2..Len(transcript) : transcript[i] \in KeywordForms

\* C27: a voice command with the wake word whose text contains a reminder
\* keyword (in any letter case) goes to the reminder parser and never to the
\* intent resolver, the gate or the dispatcher: its handling, whether or not
\* the reminder could be parsed, invokes no executor and changes no pending
\* confirmation; a voice message without the wake word is never resolved as
\* a command.
C27_ReminderKeywordRoutesToReminder ==
    /\ [][\A u \in Users, transcript \in Transcripts :
            (VoiceArrive(u, transcript) /\ is_authorized(u)) =>
                /\ IsReminderRequest(transcript) =>
                      /\ tasks'[nmsgs + 1] =
                             Task("parse_reminder", "voice", u, "", NoParams, 0, <<>>)
                      /\ UNCHANGED << pending_confirmations, log, reminders >>
                /\ (transcript = <<>> \/ Head(transcript) \notin WakeForms) =>
                      /\ tasks'[nmsgs + 1].pc \in {"done", "format"}
                      /\ UNCHANGED << pending_confirmations, log, reminders >>]_vars
    /\ [][\A m \in 1..MaxMsgs :
            (tasks[m].pc \in {"parse_reminder", "format"} /\ tasks'[m] # tasks[m]) =>
                /\ tasks'[m] = Done
                /\ UNCHANGED << pending_confirmations, log >>]_vars

C27_Witness ==
    /\ nmsgs = 3
    /\ tasks[1] = Done
    /\ tasks[2].pc = "parse_reminder"
    /\ tasks[3].pc = "format"
    /\ Len(reminders) = 1
    /\ log = <<>>
    /\ \A u \in Users : ~pending_confirmations[u].set

\* C30: a plain-text message of an operator who has no pending confirmation
\* changes nothing, also when it is an affirmative word: no executor is
\* invoked, the intent resolver is not called, no pending confirmation and no
\* reminder is created, and the pending confirmations of every other
\* operator stay as they are.
C30_TextWithoutPendingChangesNothing ==
    [][\A u \in Users, raw \in Texts :
          (~pending_confirmations[u].set /\ TextArrive(u, raw)) =>
              /\ tasks'[nmsgs + 1] = Done
              /\ \A m \in 1..nmsgs : tasks'[m] = tasks[m]
              /\ UNCHANGED << pending_confirmations, user_modes, reminders, log,
                              polls, digests >>]_vars

C30_Witness ==
    /\ TELEGRAM_USER_ID = 0
    /\ nmsgs = 3
    /\ \A m \in 1..3 : tasks[m] = Done
    /\ pending_confirmations[1].set /\ pending_confirmations[1].tag = 1
    /\ ~pending_confirmations[2].set
    /\ Len(log) = 1
    /\ reminders = <<>>
    /\ polls = <<>>

\* entry i of the history stored a descriptor that entry j, a later store of
\* the same user, overwrote while it was still pending
Overwrote(i, j) ==
    /\ i < j
    /\ log[i].ev = "store" /\ log[j].ev = "store"
    /\ log[i].user = log[j].user
    /\ \A t \in (i + 1)..(j - 1) : ~(log[t].ev = "text" /\ log[t].user = log[i].user)

\* C4: an operator id has at most one pending confirmation: a dangerous intent
\* B resolved for an operator makes the pending entry B whatever was pending
\* before, the pending entry is always the operator's latest stored descriptor,
\* and a descriptor A that was overwritten is never dispatched afterwards.
C4_LastStoredWins ==
    /\ [][\A m \in 1..MaxMsgs, response \in Responses :
            LET d == parse_intent(response)
            IN  (ParseIntentDone(m, response) /\ ~d.null
                    /\ d.intent \in DANGEROUS_INTENTS) =>
                    pending_confirmations'[tasks[m].user] = Pending(d, m)]_vars
    /\ [](\A u \in Users :
            pending_confirmations[u].set =>
                \E i \in LogIdx :
                    /\ log[i].ev = "store" /\ log[i].user = u
                    /\ pending_confirmations[u] =
                           [set |-> TRUE, intent |-> log[i].what,
                            params |-> log[i].params, tag |-> log[i].msg]
                    /\ \A t \in (i + 1)..Len(log) :
                           ~(log[t].user = u /\ log[t].ev \in {"store", "text"}))
    /\ [](\A i \in LogIdx, j \in LogIdx, k \in LogIdx :
            (Overwrote(i, j) /\ log[k].ev = "dispatch") => log[k].tag # log[i].msg)

C4_Witness ==
    /\ Len(log) = 4
    /\ Overwrote(1, 2)
    /\ log[1].what = "shutdown" /\ log[2].what = "restart"
    /\ log[3].ev = "text" /\ log[3].user = log[1].user /\ SaysYes(log[3].text)
    /\ log[4].ev = "dispatch" /\ log[4].tag = log[2].msg
    /\ log[4].handler = "cmd_restart"

\* the voice handler of message m, holding a recognised intent that is not
\* dangerous, finishes in this step
VoiceCommandEnds(m) ==
    /\ tasks[m].kind = "voice"
    /\ tasks[m].pc \in {"exec", "screenshot"}
    /\ tasks'[m] = Done

C6_DispatchedIsRegistered ==
    \A k \in LogIdx :
        log[k].ev = "dispatch" => log[k].what \in DOMAIN COMMAND_REGISTRY

\* the voice handler of user u stores a dangerous descriptor in this step
StoreOf(u) ==
    \E m \in 1..MaxMsgs, response \in Responses :
        /\ tasks[m].user = u
        /\ ParseIntentDone(m, response)
        /\ ~parse_intent(response).null
        /\ parse_intent(response).intent \in DANGEROUS_INTENTS

\* C7: a pending confirmation has no timeout: no step other than a plain-text
\* message of its operator (and a new dangerous voice command of that
\* operator, which replaces it) changes it, whatever happens in between
\* (dictation, other voice commands, reminders, photos, slash commands,
\* scheduler polls, clock ticks, other users' messages); and the operator's
\* next plain-text message removes it whatever the text says.
C7_PendingUntilNextText ==
    [][\A u \in Users :
        pending_confirmations[u].set =>
            /\ TextOf(u) => ~pending_confirmations'[u].set
            /\ ~(TextOf(u) \/ StoreOf(u)) =>
                   pending_confirmations'[u] = pending_confirmations[u]]_vars

C7_Witness ==
    /\ pending_confirmations[1].set
    /\ pending_confirmations[1].tag = 1
    /\ nmsgs = 3
    /\ user_modes[1] = "note"
    /\ Len(reminders) = 1 /\ reminders[1].fired
    /\ now = 1
    /\ \A m \in 1..MaxMsgs : tasks[m] = Done

\* the classifier answering with the explicit intent "unknown"
UnknownResponse ==
    [status |-> "content", fence |-> "none", json |-> TRUE,
     value |-> Descriptor("unknown", NoParams)]

\* the answers for which parse_intent returns None: no client, an error of
\* the API call, an empty content, a content that is not JSON
NullResponses == {r \in Responses : parse_intent(r).null}

\* C18: parse_intent returns a value (None or the parsed descriptor) for
\* every answer of the classifier, and None for a missing client, an API
\* error, an empty answer and an unparsable one; when it returns None the
\* voice handler does exactly what it does for the explicit intent "unknown":
\* it answers "not recognized" and returns, no executor is invoked (nothing
\* is dispatched, the history is unchanged) and pending_confirmations is
\* unchanged.
C18_NullIsHandledAsUnknown ==
    /\ [](/\ \A r \in Responses :
               parse_intent(r) \in {NullDescriptor} \cup ResolverValues
          /\ \A r \in Responses :
               (r.status # "content" \/ ~r.json) => r \in NullResponses)
    /\ [][\A m \in 1..MaxMsgs, r \in NullResponses :
            ParseIntentDone(m, r) =>
                /\ ParseIntentDone(m, UnknownResponse)
                /\ tasks'[m] = Done
                /\ log' = log
                /\ pending_confirmations' = pending_confirmations]_vars

C18_Witness ==
    \E m \in 1..MaxMsgs :
        /\ tasks[m].pc = "parse_intent"
        /\ pending_confirmations[tasks[m].user].set
        /\ \A r \in NullResponses : ENABLED ParseIntentDone(m, r)
        /\ Cardinality({r.status : r \in NullResponses}) = 4

\* C17 for plain text: the handling of every text message of an authorized
\* sender, with or without a pending confirmation, either answers the sender
\* in that step or leaves the handler waiting for its offloaded call (whose
\* completion answers).
C17_EveryTextGetsAReply ==
    [][\A u \in Users, raw \in Texts :
          (TextArrive(u, raw) /\ is_authorized(u)) =>
              \/ tasks'[nmsgs'].pc = "exec"
              \/ /\ Len(log') = Len(log) + 1
                 /\ log'[Len(log')].reply # ""]_vars

(***************************************************************************)
(* Reminders and polls (SpecRem).                                          *)
(***************************************************************************)
\* the history entries of kind ev written by run p of check_reminders
PollEvents(p, ev) == SelectSeq(log, LAMBDA e : e.ev = ev /\ e.msg = p)

\* this step is the query of a new run of check_reminders, and it returned
Fetched ==
    /\ Len(polls') = Len(polls) + 1
    /\ polls'[Len(polls')].fetch

\* C11: at every poll the result of get_pending_reminders is exactly the set
\* of reminders with fired = false and remind_at <= now, each once, in
\* ascending remind_at order, and check_reminders attempts the deliveries in
\* the order of that result: of two due reminders the one due earlier is
\* attempted first, and a reminder with remind_at > now is neither in the
\* result nor sent in that poll.
C11_DueCheckIsOrderedAndExact ==
    /\ [][Fetched =>
            LET due == polls'[Len(polls')].due
            IN  /\ {due[k] : k \in DOMAIN due} =
                       {i \in 1..Len(reminders) :
                           ~reminders[i].fired /\ reminders[i].remind_at <= now}
                /\ \A a \in DOMAIN due, b \in DOMAIN due :
                       /\ a # b => due[a] # due[b]
                       /\ a < b => reminders[due[a]].remind_at
                                       <= reminders[due[b]].remind_at]_vars
    /\ [](\A p \in 1..Len(polls) :
            LET sends == PollEvents(p, "send")
            IN  /\ Len(sends) <= Len(polls[p].due)
                /\ \A k \in 1..Len(sends) :
                       /\ sends[k].tag = polls[p].due[k]
                       /\ reminders[sends[k].tag].remind_at <= polls[p].at
                /\ \A a \in 1..Len(sends), b \in 1..Len(sends) :
                       reminders[sends[a].tag].remind_at
                           < reminders[sends[b].tag].remind_at => a < b)

C11_Witness ==
    /\ Len(reminders) = 3
    /\ reminders[1].remind_at = 1
    /\ reminders[2].remind_at = 0
    /\ reminders[3].remind_at = 2
    /\ Len(polls) = 1
    /\ polls[1].at = 1
    /\ polls[1].due = <<2, 1>>
    /\ polls[1].pc = "done"
    /\ Len(PollEvents(1, "send")) = 2
    /\ PollEvents(1, "send")[1].tag = 2
    /\ PollEvents(1, "send")[2].tag = 1

\* run p has finished with the reminder at position k of its list
Processed(p, k) ==
    /\ k \in DOMAIN polls[p].due
    /\ polls[p].pc = "done" \/ polls[p].i > k

\* C12 as stated: in a poll, a due reminder whose send succeeded is marked
\* fired = true (and one whose send failed keeps fired = false).
C12_AsStated ==
    \A p \in 1..Len(polls) :
        LET sends == PollEvents(p, "send")
        IN  \A k \in 1..Len(sends) :
                (Processed(p, k) /\ sends[k].what = "sent") =>
                    reminders[sends[k].tag].fired

\* C12: in a poll, for each due reminder: when the send succeeds,
\* mark_reminder_fired is called for it next and sets fired = true if that
\* update succeeds; when the send fails, or the update fails, the reminder
\* keeps fired = false and is in the result of the next poll's due-check,
\* where its delivery is attempted again.
C12_SentIsMarkedFailedIsRetried ==
    /\ [][\A p \in 1..Len(polls) :
            (polls[p].pc = "send" /\ polls'[p] # polls[p]) =>
                LET id == polls[p].due[polls[p].i]
                    e  == log'[Len(log')]
                IN  /\ Len(log') = Len(log) + 1
                    /\ e.ev = "send" /\ e.tag = id
                    /\ reminders' = reminders
                    /\ e.what = "sent" =>
                          /\ polls'[p].pc = "mark"
                          /\ polls'[p].i = polls[p].i
                    /\ e.what = "send_failed" => polls'[p].pc # "mark"]_vars
    /\ [][\A p \in 1..Len(polls) :
            (polls[p].pc = "mark" /\ polls'[p] # polls[p]) =>
                LET id == polls[p].due[polls[p].i]
                    e  == log'[Len(log')]
                IN  /\ Len(log') = Len(log) + 1
                    /\ e.ev = "mark" /\ e.tag = id
                    /\ e.what = "marked" => reminders'[id].fired
                    /\ e.what = "mark_failed" => reminders' = reminders]_vars
    /\ [][Fetched =>
            \A k \in 1..Len(log) :
                (log[k].what \in {"send_failed", "mark_failed"}
                    /\ ~reminders[log[k].tag].fired) =>
                    \E j \in DOMAIN polls'[Len(polls')].due :
                        polls'[Len(polls')].due[j] = log[k].tag]_vars
    /\ [](\A p \in 1..Len(polls) :
            (polls[p].pc = "done" /\ polls[p].fetch) =>
                Len(PollEvents(p, "send")) = Len(polls[p].due))

C12_Witness ==
    /\ Len(polls) = 2
    /\ polls[2].pc = "done"
    /\ Len(reminders) = 1
    /\ reminders[1].fired
    /\ [k \in 1..Len(log) |-> log[k].what] =
           <<"ok", "send_failed", "ok", "sent", "marked">>

\* C13: once a reminder has fired = true, no poll that runs afterwards sends
\* it: a run of check_reminders whose query comes after the marking of R
\* sends no message for R.
C13_FiredIsNotSentAgain ==
    \A j \in 1..Len(log), f \in 1..Len(log), k \in 1..Len(log) :
        (/\ j < f /\ f < k
         /\ log[j].ev = "mark" /\ log[j].what = "marked"
         /\ log[f].ev = "fetch"
         /\ log[k].ev = "send" /\ log[k].msg = log[f].msg)
            => log[k].tag # log[j].tag

C13_Witness ==
    /\ Len(reminders) = 2
    /\ reminders[1].fired /\ ~reminders[2].fired
    /\ Len(polls) = 2
    /\ polls[2].pc = "done" /\ polls[2].fetch
    /\ polls[2].due = <<2>>
    /\ reminders[1].remind_at <= polls[2].at
    /\ \E j \in 1..Len(log) :
          log[j].what = "marked" /\ log[j].tag = 1 /\ log[j].msg = 1

\* C14: within one poll a failure of the send or of the marking of one due
\* reminder does not stop the poll: the run goes on with the next reminder of
\* its list, every reminder of the list gets its send attempt before the run
\* returns, and the run can always take its next step until it returns (no
\* exception ends it).
C14_FailureDoesNotStopThePoll ==
    /\ [][\A p \in 1..Len(polls) :
            (polls[p].pc # "done" /\ polls'[p] # polls[p]
                /\ log'[Len(log')].what \in {"send_failed", "mark_failed"}) =>
                IF polls[p].i < Len(polls[p].due)
                THEN polls'[p].pc = "send" /\ polls'[p].i = polls[p].i + 1
                ELSE polls'[p].pc = "done"]_vars
    /\ [](\A p \in 1..Len(polls) :
            /\ (polls[p].pc = "done" /\ polls[p].fetch) =>
                  [k \in 1..Len(PollEvents(p, "send")) |->
                      PollEvents(p, "send")[k].tag] = polls[p].due
            /\ polls[p].pc = "send" => ENABLED (\E ok \in BOOLEAN : PollSend(p, ok))
            /\ polls[p].pc = "mark" => ENABLED (\E ok \in BOOLEAN : PollMark(p, ok)))

C14_Witness ==
    /\ Len(polls) = 1
    /\ polls[1].pc = "done"
    /\ Len(polls[1].due) = 3
    /\ [k \in 1..Len(log) |-> log[k].what] =
           <<"ok", "send_failed", "sent", "mark_failed", "sent", "marked">>

\* C15 for the configuration without an operator id (TELEGRAM_USER_ID = 0,
\* in which every sender is authorized and reminders are created): every
\* reminder that was created is, once its remind_at has passed, eventually
\* marked fired.
C15_NoReminderIsLost ==
    (TELEGRAM_USER_ID = 0) =>
        \A i \in 1..MaxMsgs :
            (i <= Len(reminders) /\ reminders[i].remind_at <= now)
                ~> (i <= Len(reminders) /\ reminders[i].fired)

\* C19: a run of the daily or the weekly digest job whose query returned no
\* records, or whose generator returned no result, sends no message and
\* raises nothing; a run whose send fails raises nothing either, made that
\* one send_message call and no other, and is over: nothing of it is left
\* that could send the digest again.
C19_DigestNoOpAndNoRetry ==
    /\ [](\A d \in 1..Len(digests) :
            LET run == digests[d]
            IN  /\ run.sends <= 1
                /\ (run.pc = "done" /\ ~run.raised
                        /\ (run.entries = 0 \/ run.digest # "text")) =>
                       run.sends = 0
                /\ run.entries > 0 => ~run.raised
                /\ (run.sends = 1 /\ ~run.delivered) =>
                       /\ run.pc = "done" /\ ~run.raised
                       /\ ~ENABLED (\E ok \in BOOLEAN : DigestSend(d, ok))
                       /\ ~ENABLED (\E r \in LlmResults : DigestGenerated(d, r)))
    /\ [][\A d \in 1..Len(digests) :
            digests[d].pc = "done" => digests'[d] = digests[d]]_vars

C19_Witness ==
    /\ Len(digests) = 3
    /\ digests[1] = Digest("daily", "done", 0, "none", 0, FALSE, FALSE)
    /\ digests[2] = Digest("weekly", "done", 2, "none", 0, FALSE, FALSE)
    /\ digests[3] = Digest("daily", "done", 1, "text", 1, FALSE, FALSE)

\* the number of send_message calls for reminder id that returned
TimesSent(id) ==
    Len(SelectSeq(log, LAMBDA e : e.ev = "send" /\ e.what = "sent" /\ e.tag = id))

\* C21: also when runs of check_reminders interleave, a reminder whose
\* marking never failed is sent through the channel at most once.
C21_SentAtMostOnce ==
    \A id \in 1..Len(reminders) :
        (\A k \in 1..Len(log) : ~(log[k].what = "mark_failed" /\ log[k].tag = id))
            => TimesSent(id) <= 1

\* the parser's result has both keys
Complete(parsed) == ~parsed.null /\ parsed.has_delay /\ parsed.has_text

\* C22: a reminder is created only by the reminder branch of a voice command
\* whose parser result has both delay_seconds and text; the record it creates
\* is appended with an id no existing reminder has, the user_id of the sender
\* of the request, remind_at = now + delay_seconds, the parsed text and
\* fired = false, and the answer names it; when the parser returns None or a
\* result without one of the keys, nothing is persisted and the answer is
\* the failure reply.
C22_ReminderCreation ==
    /\ [][Len(reminders') > Len(reminders) =>
            \E m \in 1..MaxMsgs, parsed \in ReminderParses :
                ParseReminderDone(m, parsed) /\ Complete(parsed)]_vars
    /\ [][\A m \in 1..MaxMsgs, parsed \in ReminderParses :
            ParseReminderDone(m, parsed) =>
                LET b == ReminderBranch(reminders, tasks[m].user, parsed, now)
                IN  /\ (Complete(parsed) /\ parsed.numeric) =>
                          /\ Len(reminders') = Len(reminders) + 1
                          /\ \A i \in 1..Len(reminders) :
                                /\ reminders'[i] = reminders[i]
                                /\ reminders[i].id # reminders'[Len(reminders')].id
                          /\ reminders'[Len(reminders')].user_id = tasks[m].user
                          /\ reminders'[Len(reminders')].remind_at = now + parsed.delay
                          /\ reminders'[Len(reminders')].text = parsed.text
                          /\ ~reminders'[Len(reminders')].fired
                          /\ b.reply = "created"
                          /\ b.rid = reminders'[Len(reminders')].id
                    /\ ~Complete(parsed) =>
                          /\ reminders' = reminders
                          /\ b.reply = "parse_failed"]_vars

C22_Witness ==
    /\ nmsgs = 3
    /\ \A m \in 1..3 : tasks[m].pc = "done"
    /\ Len(reminders) = 2
    /\ reminders[1].user_id = 2 /\ reminders[1].remind_at = 0
    /\ reminders[2].user_id = 1 /\ reminders[2].remind_at = 2
    /\ reminders[2].id # reminders[1].id
    /\ now = 1
    /\ polls = <<>>

\* C23: when the daily digest trigger fires, the entries it gathers contain
\* every transcription of the operator that was saved earlier on the same
\* (local) day.
C23_DailyDigestGathersToday ==
    call.fn = "generate_daily_digest" =>
        \A k \in 1..Len(call.rows) :
            (/\ call.rows[k].user_id = call.user_id
             /\ call.rows[k].saved <= call.instant
             /\ DayOf(call.rows[k].saved + call.off) = DayOf(call.instant + call.off))
                => \E j \in 1..Len(call.entries) : call.entries[j] = call.rows[k]

\* C16: whatever happens (creation, polls whose sends succeed or fail,
\* listing), a reminder record is never deleted, its id, text, user_id and
\* remind_at never change, and its fired flag only ever goes from false to
\* true.
C16_ReminderRecordsAreStable ==
    [][/\ Len(reminders') >= Len(reminders)
       /\ \A i \in 1..Len(reminders) :
             /\ reminders'[i].id = reminders[i].id
             /\ reminders'[i].text = reminders[i].text
             /\ reminders'[i].user_id = reminders[i].user_id
             /\ reminders'[i].remind_at = reminders[i].remind_at
             /\ reminders[i].fired => reminders'[i].fired]_vars

C16_Witness ==
    /\ Len(reminders) = 3
    /\ reminders[1].fired /\ reminders[2].fired /\ ~reminders[3].fired
    /\ Len(polls) = 2
    /\ \E j \in 1..Len(log) : log[j].what = "send_failed"

(***************************************************************************)
(* The dispatcher and the macro runner (SpecPure).                         *)
(***************************************************************************)
AppliedCommand == call.fn = "execute_command"

AppliedMacro == call.fn = "execute_macro"

\* C8: execute_command with an intent name that is not a key of the Command
\* Registry, and execute_macro with a macro name that is not a key of the
\* Macro Registry, return the not-found outcome that names it, invoke no
\* executor and raise no exception.
C8_UnknownNameIsNotFound ==
    /\ (AppliedCommand /\ call.name \notin DOMAIN COMMAND_REGISTRY) =>
          /\ ~call.res.raised
          /\ call.res.out = Outcome("not_found", call.name, 0)
          /\ Calls(call.res) = <<>>
    /\ (AppliedMacro /\ call.name \notin DOMAIN call.macros) =>
          /\ ~call.res.raised
          /\ call.res.out = Outcome("not_found", call.name, 0)
          /\ call.res.dispatched = <<>>

C8_Witness ==
    /\ AppliedCommand
    /\ call.name = "open_browser"
    /\ call.res.out.kind = "not_found"
    /\ Calls(call.res) = <<>>

\* the registered handler of the applied intent raises on the OS result it meets
ExecutorRaises ==
    /\ AppliedCommand
    /\ call.name \in DOMAIN COMMAND_REGISTRY
    /\ COMMAND_REGISTRY[call.name] # "cmd_run_macro"
    /\ InvokeLeaf(COMMAND_REGISTRY[call.name], call.params, Os(call.env)).raised

\* C9: for every registered intent and every params value, execute_command
\* lets no exception propagate, and when the executor raises it returns the
\* dispatcher's failure outcome for that intent.
C9_ExecutorErrorIsFailureOutcome ==
    (AppliedCommand /\ call.name \in DOMAIN COMMAND_REGISTRY) =>
        /\ ~call.res.raised
        /\ ExecutorRaises =>
              /\ call.res.out = Outcome("error", call.name, 0)
              /\ IsFailure(call.res.out)

C9_Witness ==
    /\ ExecutorRaises
    /\ call.name = "shutdown"
    /\ call.params = {<<"delay_seconds", 300>>}
    /\ call.res.out.kind = "error"

\* floor(p / 2): the integer q with 2q <= p < 2q + 2
FloorHalf(p) == CHOOSE q \in (0 - MaxPercent - 1)..MaxPercent : 2 * q <= p /\ p < 2 * q + 2

\* the percent a volume command was applied with (10 when omitted)
AppliedPercent ==
    IF \E p \in call.params : p[1] = "percent"
    THEN (CHOOSE p \in call.params : p[1] = "percent")[2]
    ELSE 10

\* C20: for every integer percent, volume_up (when the key presses work)
\* presses the volume-up key exactly max(1, floor(percent / 2)) times, never
\* fewer than once, and its outcome reports "+N%" with
\* N = 2 * max(1, floor(percent / 2)); with percent = 10 and with percent
\* omitted the outcome reports "+10%".
C20_VolumeUpSteps ==
    (AppliedCommand /\ call.name = "volume_up" /\ Os(call.env) # "raise") =>
        LET steps == IF FloorHalf(AppliedPercent) >= 1
                     THEN FloorHalf(AppliedPercent) ELSE 1
            out   == call.res.out
        IN  /\ ~call.res.raised
            /\ out.kind = "success"
            /\ Len(out.keys) = steps
            /\ Len(out.keys) >= 1
            /\ \A k \in 1..Len(out.keys) : out.keys[k] = "volumeup"
            /\ out.n = 2 * steps
            /\ AppliedPercent = 10 => out.n = 10

C20_Witness ==
    /\ AppliedCommand
    /\ call.name = "volume_up"
    /\ call.params = {<<"percent", 0 - 3>>}
    /\ call.res.out.n = 2
    /\ call.res.out.keys = <<"volumeup">>

\* the dispatches a run of a registered macro made for its steps: all of
\* them for execute_macro, all but the run_macro dispatch itself for
\* execute_command("run_macro", ...)
RegisteredMacroRun ==
    \/ AppliedMacro /\ call.macros = MACRO_REGISTRY
                    /\ call.name \in DOMAIN MACRO_REGISTRY
    \/ AppliedCommand /\ call.name = "run_macro"
                      /\ Get(call.params, "macro", "") \in DOMAIN MACRO_REGISTRY

RunMacroName == IF AppliedMacro THEN call.name ELSE Get(call.params, "macro", "")

StepDispatches ==
    IF AppliedMacro THEN call.res.dispatched ELSE Tail(call.res.dispatched)

\* C24: no macro of MACRO_REGISTRY has a step whose intent is dangerous or is
\* run_macro; so a run of a registered macro, by execute_macro or through
\* run_macro, dispatches exactly its steps, one dispatch per step in order,
\* none of them to a dangerous executor and none to cmd_run_macro, and
\* returns its report.
C24_MacrosAreSafe ==
    /\ \A name \in DOMAIN MACRO_REGISTRY :
          \A i \in 1..Len(MACRO_REGISTRY[name]) :
              MACRO_REGISTRY[name][i].intent \notin DANGEROUS_INTENTS \cup {"run_macro"}
    /\ RegisteredMacroRun =>
          LET steps == MACRO_REGISTRY[RunMacroName]
          IN  /\ ~call.res.raised
              /\ call.res.out.kind = "report"
              /\ Len(StepDispatches) = Len(steps)
              /\ \A i \in 1..Len(StepDispatches) :
                    /\ StepDispatches[i].intent = steps[i].intent
                    /\ StepDispatches[i].handler \notin DangerousHandlers
                    /\ StepDispatches[i].handler # "cmd_run_macro"

C24_Witness ==
    /\ AppliedCommand
    /\ call.name = "run_macro"
    /\ call.params = {<<"macro", "focus_mode">>}
    /\ Len(call.res.dispatched) = 3
    /\ call.res.dispatched[1].handler = "cmd_run_macro"
    /\ call.res.dispatched[2].handler = "cmd_volume_mute"
    /\ call.res.dispatched[3].handler = "cmd_close_app"
    /\ call.res.out.kind = "report"

\* C28: in a macro report the entry of a step whose dispatch returned a
\* failure outcome (unregistered intent, executor error, an executor's own
\* failure message) does not carry the success marker.
C28_SuccessMarkerOnlyOnSuccess ==
    (AppliedMacro /\ call.name \in DOMAIN call.macros) =>
        \A i \in 1..Len(call.res.out.body) :
            IsFailure(call.res.out.body[i].out) =>
                call.res.out.body[i].marker # "check"

\* the OS result step i of the applied macro meets
StepOs(i) == IF i <= Len(call.env) THEN call.env[i] ELSE "ok"

\* step i of the applied macro fails: its intent is not registered, its
\* executor raises, or its executor reports a failure of its own
StepFails(step, os) ==
    \/ step.intent \notin DOMAIN COMMAND_REGISTRY
    \/ step.intent = "volume_mute" /\ os = "raise"
    \/ step.intent = "close_app" /\ os # "ok"
    \/ step.intent = "open_app" /\ step.params = NoParams

\* C10: execute_macro on a registered macro dispatches every step exactly once
\* in declaration order and returns a report with exactly one entry per step
\* in that order (volume_mute then close_app for focus_mode, an empty body
\* for a macro without steps); the entry of a step that fails or whose intent
\* is not registered shows the failure outcome of that step, the steps after
\* it are still dispatched, and no exception escapes.
C10_MacroReportsEveryStep ==
    (AppliedMacro /\ call.name \in DOMAIN call.macros) =>
        LET steps == call.macros[call.name]
            body  == call.res.out.body
            sent  == call.res.dispatched
        IN  /\ ~call.res.raised
            /\ call.res.out.kind = "report"
            /\ Len(body) = Len(steps)
            /\ Len(sent) = Len(steps)
            /\ \A i \in 1..Len(steps) :
                  /\ Step(sent[i].intent, sent[i].params) = steps[i]
                  /\ body[i].intent = steps[i].intent
                  /\ body[i].out =
                         execute_command(steps[i].intent, steps[i].params,
                                         <<StepOs(i)>>).out
                  /\ StepFails(steps[i], StepOs(i)) => IsFailure(body[i].out)
            /\ call.name = "focus_mode" =>
                  /\ Len(body) = 2
                  /\ body[1].intent = "volume_mute"
                  /\ body[2].intent = "close_app"

C10_Witness ==
    /\ AppliedMacro
    /\ call.name = "test_macro"
    /\ call.macros["test_macro"] =
           << Step("volume_mute", NoParams), Step("no_such_intent", NoParams),
              Step("close_app", {<<"name", "telegram">>}) >>
    /\ \A i \in 1..Len(call.env) : call.env[i] = "ok"
    /\ Len(call.res.out.body) = 3
    /\ call.res.out.body[1].out.kind = "success"
    /\ call.res.out.body[2].out.kind = "not_found"
    /\ call.res.out.body[3].out.kind = "success"

=============================================================================
